---- MODULE Spec2Model ----
(***************************************************************************)
(* The multi-protocol DNS resolution engine of yadnsb: the wire codec, the *)
(* Classic, DoH, DoT and DoQ transports and the result each resolve call   *)
(* produces.  One resolve call is in progress at a time (server.js awaits  *)
(* each test before it starts the next).                                   *)
(***************************************************************************)
EXTENDS Integers, Sequences, FiniteSets, TLC

(***************************************************************************)
(* Bounds of the model.                                                    *)
(***************************************************************************)
\* this.timeout, in clock ticks (the setter lets it be any value)
Timeout == 2
\* the clock stops this many ticks after the last possible expiry
MaxSlack == 1
\* a timeout a caller sets in place of the default, in clock ticks
ShortTimeout == 1
\* largest number of answer records in a generated response
MaxAnswers == 2
\* largest testCount of a benchmark run
MaxTestCount == 2
\* the startTest and stopTest calls made on the browser's DNSTester
MaxStarts == 2
MaxStops == 1

(***************************************************************************)
(* JavaScript values the decoders meet.                                    *)
(***************************************************************************)
\* the value of buffer[i] for i outside the buffer
Undefined == -1
\* the value of offset after `offset += undefined + 1`
NaN == -2

\* buffer[offset]
ByteAt(buffer, offset) ==
    IF offset >= 0 /\ offset < Len(buffer) THEN buffer[offset + 1] ELSE Undefined

\* ToInt32 of a byte read: undefined becomes 0 under << | &
ToInt32(b) == IF b = Undefined THEN 0 ELSE b

\* (buffer[offset] << 8) | buffer[offset + 1]
ShiftOr16(buffer, offset) ==
    ToInt32(ByteAt(buffer, offset)) * 256 + ToInt32(ByteAt(buffer, offset + 1))

\* buffer.readUInt16BE(offset) throws a RangeError outside the buffer
readUInt16BEThrows(buffer, offset) == offset + 2 > Len(buffer)

readUInt16BE(buffer, offset) == buffer[offset + 1] * 256 + buffer[offset + 2]

\* (buffer[offset] & 0xC0) === 0xC0
IsPointer(buffer, offset) == ToInt32(ByteAt(buffer, offset)) >= 192

\* while (buffer[offset] !== 0) { offset += buffer[offset] + 1; }
\* The result is the offset of the zero byte.  Outside the buffer the read
\* gives undefined, offset becomes NaN and the loop never ends.
RECURSIVE WalkLabels(_, _)
WalkLabels(buffer, offset) ==
    IF ByteAt(buffer, offset) = Undefined THEN NaN
    ELSE IF ByteAt(buffer, offset) = 0 THEN offset
    ELSE WalkLabels(buffer, offset + ByteAt(buffer, offset) + 1)

\* for (i < qdcount) { walk labels; offset += 5; }
RECURSIVE SkipQuestions(_, _, _)
SkipQuestions(buffer, offset, qdcount) ==
    IF qdcount = 0 THEN offset
    ELSE LET z == WalkLabels(buffer, offset)
         IN  IF z = NaN THEN NaN ELSE SkipQuestions(buffer, z + 5, qdcount - 1)

\* a name field that is always walked as labels
SkipNameLabels(buffer, offset) ==
    LET z == WalkLabels(buffer, offset)
    IN  IF z = NaN THEN NaN ELSE z + 1

\* the name field of an answer record: 2 bytes for a pointer, else labels + 1
SkipName(buffer, offset) ==
    IF IsPointer(buffer, offset) THEN offset + 2
    ELSE LET z == WalkLabels(buffer, offset)
         IN  IF z = NaN THEN NaN ELSE z + 1

\* `${buffer[offset]}.${buffer[offset + 1]}.${buffer[offset + 2]}.${buffer[offset + 3]}`
DottedDecimal(buffer, offset) ==
    << "A", ByteAt(buffer, offset), ByteAt(buffer, offset + 1),
            ByteAt(buffer, offset + 2), ByteAt(buffer, offset + 3) >>

\* eight readUInt16BE groups, part.toString(16), joined by ':'
HexGroups(buffer, offset) ==
    << "AAAA" >> \o [j \in 1..8 |-> readUInt16BE(buffer, offset + (j - 1) * 2)]

Max(a, b) == IF a >= b THEN a ELSE b

(***************************************************************************)
(* DoHResolver.parseDNSMessage.  The outcome is a record: kind "ok" with   *)
(* the answers, or kind "hang" when a label walk never ends.  Nothing in   *)
(* the try block can throw on a Buffer, so the catch is never taken.  The  *)
(* field reach is the largest offset the decoder read or moved to.         *)
(***************************************************************************)
RECURSIVE AnswersDoH(_, _, _, _, _)
AnswersDoH(buffer, offset, ancount, answers, reach) ==
    IF ancount = 0 THEN [kind |-> "ok", answers |-> answers, reach |-> Max(reach, offset)]
    ELSE LET nameEnd == SkipName(buffer, offset)
         IN  IF nameEnd = NaN
             THEN [kind |-> "hang", answers |-> << >>, reach |-> Len(buffer) + 1]
             ELSE LET type     == ShiftOr16(buffer, nameEnd)
                      rdlength == ShiftOr16(buffer, nameEnd + 8)
                      rdata    == nameEnd + 10
                      found    == IF type = 1 /\ rdlength = 4
                                  THEN Append(answers, DottedDecimal(buffer, rdata))
                                  ELSE answers
                  IN  AnswersDoH(buffer, rdata + rdlength, ancount - 1, found,
                                 Max(reach, rdata + rdlength))

parseDNSMessage(buffer) ==
    LET qdcount == ShiftOr16(buffer, 4)
        offset  == SkipQuestions(buffer, 12, qdcount)
        ancount == ShiftOr16(buffer, 6)
    IN  IF offset = NaN
        THEN [kind |-> "hang", answers |-> << >>, reach |-> Len(buffer) + 1]
        ELSE AnswersDoH(buffer, offset, ancount, << >>, Max(8, offset))

(***************************************************************************)
(* DoTResolver.parseDNSResponse.  readUInt16BE throws outside the buffer   *)
(* and the catch rethrows it as a parse error; the label walks and the     *)
(* dotted-decimal reads index the buffer directly and do not throw.        *)
(***************************************************************************)
ParseError(reach) == [kind |-> "error", answers |-> << >>, reach |-> reach]

RECURSIVE AnswersDoT(_, _, _, _, _)
AnswersDoT(buffer, offset, ancount, answers, reach) ==
    IF ancount = 0 THEN [kind |-> "ok", answers |-> answers, reach |-> Max(reach, offset)]
    ELSE LET nameEnd == SkipName(buffer, offset)
         IN  IF nameEnd = NaN
             THEN [kind |-> "hang", answers |-> << >>, reach |-> Len(buffer) + 1]
             ELSE IF readUInt16BEThrows(buffer, nameEnd) THEN ParseError(nameEnd + 2)
             ELSE IF readUInt16BEThrows(buffer, nameEnd + 8) THEN ParseError(nameEnd + 10)
             ELSE LET answerType == readUInt16BE(buffer, nameEnd)
                      rdlength   == readUInt16BE(buffer, nameEnd + 8)
                      rdata      == nameEnd + 10
                  IN  IF answerType = 28 /\ rdlength = 16
                         /\ readUInt16BEThrows(buffer, rdata + 14)
                      THEN ParseError(rdata + 16)
                      ELSE LET found ==
                                 IF answerType = 1 /\ rdlength = 4
                                 THEN Append(answers, DottedDecimal(buffer, rdata))
                                 ELSE IF answerType = 28 /\ rdlength = 16
                                 THEN Append(answers, HexGroups(buffer, rdata))
                                 ELSE answers
                           IN  AnswersDoT(buffer, rdata + rdlength, ancount - 1, found,
                                          Max(reach, rdata + rdlength))

parseDNSResponse(buffer) ==
    IF readUInt16BEThrows(buffer, 4) THEN ParseError(6)
    ELSE LET offset == SkipQuestions(buffer, 12, readUInt16BE(buffer, 4))
         IN  IF offset = NaN
             THEN [kind |-> "hang", answers |-> << >>, reach |-> Len(buffer) + 1]
             ELSE IF readUInt16BEThrows(buffer, 6) THEN ParseError(8)
             ELSE AnswersDoT(buffer, offset, readUInt16BE(buffer, 6), << >>, Max(8, offset))

(***************************************************************************)
(* getDNSType and the encoder (createDNSMessage / createDNSQuery).  A      *)
(* domain is the list of its dot-separated labels, a label its bytes.      *)
(***************************************************************************)
\* type.toUpperCase() on the type strings of the model
toUpperCase(type) ==
    CASE type = "a"    -> "A"
      [] type = "aaaa" -> "AAAA"
      [] type = "mx"   -> "MX"
      [] OTHER         -> type

\* types[type.toUpperCase()] || 1
getDNSType(type) ==
    LET t == toUpperCase(type)
    IN  CASE t = "A"     -> 1
          [] t = "AAAA"  -> 28
          [] t = "MX"    -> 15
          [] t = "TXT"   -> 16
          [] t = "NS"    -> 2
          [] t = "CNAME" -> 5
          [] t = "SOA"   -> 6
          [] t = "PTR"   -> 12
          [] OTHER       -> 1

RECURSIVE Flatten(_)
Flatten(seqs) == IF seqs = << >> THEN << >> ELSE Head(seqs) \o Flatten(Tail(seqs))

\* labels written with their length byte after them
EncodeLabelsTrailing(domain) ==
    Flatten([i \in 1..Len(domain) |-> domain[i] \o << Len(domain[i]) >>])

\* for (const label of labels) { writeUInt8(label.length); write(label) }
EncodeLabels(domain) ==
    Flatten([i \in 1..Len(domain) |-> << Len(domain[i]) >> \o domain[i]])

\* the offset the encoder reaches: header, labels, terminator, QTYPE, QCLASS
EncodedLength(domain) == 12 + Len(EncodeLabels(domain)) + 1 + 4

\* The message buffer is Buffer.alloc(512): a fixed-width write past its end,
\* or a label length above 255, throws a RangeError.
createDNSQueryThrows(domain) ==
    \/ EncodedLength(domain) > 512
    \/ \E i \in 1..Len(domain) : Len(domain[i]) > 255

\* the bytes of the query; id is the random transaction id
createDNSQuery(domain, type, id) ==
    << id \div 256, id % 256, 1, 0, 0, 1, 0, 0, 0, 0, 0, 0 >>
    \o EncodeLabels(domain) \o << 0 >>
    \o << getDNSType(type) \div 256, getDNSType(type) % 256, 0, 1 >>

\* a length prefix with its low byte first
LengthPrefixedLE(query) == << Len(query) % 256, Len(query) \div 256 >> \o query

\* lengthPrefix.writeUInt16BE(query.length, 0); Buffer.concat([lengthPrefix, query])
LengthPrefixed(query) == << Len(query) \div 256, Len(query) % 256 >> \o query

(***************************************************************************)
(* The inputs of the model: domains, record types, servers, and the bytes  *)
(* an upstream may send.                                                   *)
(***************************************************************************)
LabelA == << 97 >>
LabelBB == << 98, 98 >>
Label63 == [i \in 1..63 |-> 97]

\* "a", "a.bb", and a name of nine 63-byte labels that overflows the buffer
DomainA == << LabelA >>
DomainABB == << LabelA, LabelBB >>
DomainLong == [i \in 1..9 |-> Label63]
Domains == { DomainA, DomainABB, DomainLong }

Types == { "A", "aaaa", "bogus" }

\* the (domain, type) pairs resolve is called with
Queries == { << DomainA, "A" >>, << DomainABB, "aaaa" >>, << DomainA, "bogus" >>,
             << DomainLong, "A" >> }

\* values of Math.floor(Math.random() * 65536)
TransactionIds == { 4660 }

\* a response header with the given QDCOUNT and ANCOUNT
Header(qd, an) == << 18, 52, 129, 128, 0, qd, 0, an, 0, 0, 0, 0 >>

\* the question "a" IN A
Question == << 1, 97, 0, 0, 1, 0, 1 >>

\* answer records: A with a compression pointer, A with a label name,
\* AAAA, and CNAME (a type the decoders skip)
RecA == << 192, 12, 0, 1, 0, 1, 0, 0, 0, 60, 0, 4, 10, 0, 0, 1 >>
RecALabel == << 1, 97, 0, 0, 1, 0, 1, 0, 0, 0, 60, 0, 4, 10, 0, 0, 2 >>
RecAAAA == << 192, 12, 0, 28, 0, 1, 0, 0, 0, 60, 0, 16,
              32, 1, 13, 184, 0, 0, 0, 0, 0, 0, 0, 0, 0, 0, 0, 1 >>
RecCNAME == << 192, 12, 0, 5, 0, 1, 0, 0, 0, 60, 0, 2, 192, 12 >>
Records == { RecA, RecALabel, RecAAAA, RecCNAME }

RecordLists(n) == UNION { [1..k -> Records] : k \in 0..n }

\* well-formed responses with up to n answers, with and without a question
Responses(n) ==
    { Header(qd, Len(rs)) \o (IF qd = 1 THEN Question ELSE << >>) \o Flatten(rs) :
        qd \in {0, 1}, rs \in RecordLists(n) }

Prefixes(s) == { SubSeq(s, 1, k) : k \in 0..Len(s) }

\* every response and every truncation of one
DecoderInputs == UNION { Prefixes(m) : m \in Responses(MaxAnswers) }

\* largest number of answer records in a frame sent to the DoT transport
MaxFrameAnswers == 1

\* the lengths at which a response is cut to make a frame's content
FrameCuts(r) == { Len(r), Len(r) - 3, 14, 5 } \cap 0..Len(r)

\* what a DoT peer may send: a 2-byte length, that many bytes (a response with
\* a question, or a truncation of one), and possibly a byte after the frame
DoTStreams ==
    { << Len(m) \div 256, Len(m) % 256 >> \o m \o extra :
        m \in UNION { { SubSeq(Header(1, Len(rs)) \o Question \o Flatten(rs), 1, k) :
                          k \in FrameCuts(Header(1, Len(rs)) \o Question \o Flatten(rs)) } :
                      rs \in RecordLists(MaxFrameAnswers) },
        extra \in { << >>, << 9 >> } }

\* server descriptors of the DoT transport; port 0 stands for a missing port
DoTServers ==
    { [type |-> "DoT", name |-> "dot", address |-> << "1.1.1.1" >>, port |-> p] :
        p \in { 853, 0, 70000 } }

\* the DoT calls of the model: every query against every server with a peer
\* that sends one well-formed response, and one query against one server
\* with every stream
DoTCalls ==
    { << q, s, << 0, 35 >> \o Header(1, 1) \o Question \o RecA >> :
        q \in Queries, s \in DoTServers }
    \cup { << << DomainA, "A" >>,
             [type |-> "DoT", name |-> "dot", address |-> << "1.1.1.1" >>, port |-> 853],
             w >> : w \in DoTStreams }

(***************************************************************************)
(* The state.                                                              *)
(***************************************************************************)
VARIABLES
    active,          \* the transport whose resolve call is in progress, or "none"
    server,          \* the call's arguments
    domain,
    qtype,
    promise,         \* the promise resolve returned: none, pending, fulfilled, rejected
    resolved,        \* the results handed to the promise's resolve, in order
    now,             \* the clock
    blocked,         \* the event loop is inside a loop that never ends
    socket,          \* DoT: none, connecting, open, destroyed, closed
    timeoutHandle,   \* DoT: the variable timeoutHandle holds a timer object
    timerArmed,      \* DoT: that timer is pending
    deadline,        \* the clock value at which the pending timer expires
    responseBuffer,  \* DoT: bytes received and not yet consumed
    expectedLength,  \* DoT: the frame length, or Null
    wire,            \* DoT: the bytes the peer has yet to deliver
    written,         \* DoT: the buffers passed to socket.write
    pc,              \* Classic, DoH: where the async function is suspended
    attempts,        \* DoH: the HTTP methods attempted, in order
    failures,        \* DoH: the errors the attempts threw, in order
    contentType,     \* DoH: the content-type header of the response being read
    lookups,         \* Classic: the queries issued to the resolver client
    decoded,         \* the outcome of a decoder applied to a byte sequence
    encoded,         \* the outcome of the encoder applied to a name and a type
    timeout,         \* this.timeout of the Classic, DoH and DoT resolver instances
    parked,          \* DoT: the locals of a second call, while the first call's run
    run,             \* handleTestRequest: its config, its place in the loops, its counters
    sent,            \* handleTestRequest: the messages passed to ws.send, in order
    tester           \* the browser's DNSTester: its fields and its startTest calls

vars == << active, server, domain, qtype, promise, resolved, now, blocked,
           socket, timeoutHandle, timerArmed, deadline, responseBuffer,
           expectedLength, wire, written, pc, attempts, failures, contentType,
           lookups, decoded, encoded, timeout, parked, run, sent, tester >>

callVars == << server, domain, qtype >>

\* what no step of a resolve call assigns
restVars == << timeout, parked, run, sent, tester >>
dotVars == << socket, timeoutHandle, responseBuffer, expectedLength, wire, written >>
timerVars == << timerArmed, deadline >>
asyncVars == << pc, attempts, failures, contentType, lookups >>
codecVars == << decoded, encoded >>

Null == -3
NoServer == [type |-> "none"]
NotDecoded == [input |-> << >>, doh |-> [kind |-> "none"], dot |-> [kind |-> "none"]]
NotEncoded == [kind |-> "none"]

MaxTime == 2 * Timeout + MaxSlack

\* the variables of resolve's promise executor before any call
IdleLocals ==
    [active |-> "none", server |-> NoServer, domain |-> << >>, qtype |-> "A",
     promise |-> "none", resolved |-> << >>, socket |-> "none",
     timeoutHandle |-> FALSE, timerArmed |-> FALSE, deadline |-> 0,
     responseBuffer |-> << >>, expectedLength |-> Null, wire |-> << >>,
     written |-> << >>]

\* no startTest message has arrived
NoRun == [pc |-> "idle"]

\* constructor: this.timeout = 5000, the same in each resolver class
DefaultTimeouts == [Classic |-> Timeout, DoH |-> Timeout, DoT |-> Timeout]

\* DNSTester's constructor; websocket is the startTest call whose socket
\* this.websocket is, or 0 for null.  calls holds the startTest calls made,
\* performed the tests passed to performSingleTest, completions the 'Test
\* completed' events dispatched, status the text last shown.
NewTester ==
    [isRunning |-> FALSE, results |-> << >>, websocket |-> 0, testQueue |-> << >>,
     completedTests |-> 0, totalTests |-> 0,
     calls |-> << >>, queues |-> 0, stops |-> 0, performed |-> << >>,
     completions |-> << >>, status |-> "none"]

Init ==
    /\ active = "none"
    /\ tester = NewTester
    /\ server = NoServer
    /\ domain = << >>
    /\ qtype = "A"
    /\ timeout = DefaultTimeouts
    /\ parked = IdleLocals
    /\ run = NoRun
    /\ sent = << >>
    /\ promise = "none"
    /\ resolved = << >>
    /\ now = 0
    /\ blocked = FALSE
    /\ socket = "none"
    /\ timeoutHandle = FALSE
    /\ timerArmed = FALSE
    /\ deadline = 0
    /\ responseBuffer = << >>
    /\ expectedLength = Null
    /\ wire = << >>
    /\ written = << >>
    /\ pc = "idle"
    /\ attempts = << >>
    /\ failures = << >>
    /\ contentType = "none"
    /\ lookups = << >>
    /\ decoded = NotDecoded
    /\ encoded = NotEncoded

(***************************************************************************)
(* The ResolutionResult objects the transports build.                      *)
(***************************************************************************)
\* a result builder that reports an empty answer list as a failure
SuccessResultNonEmpty(result, s, d, t) ==
    IF result = << >>
    THEN [success |-> FALSE, error |-> << "No answers" >>, server |-> s,
          domain |-> d, type |-> t]
    ELSE [success |-> TRUE, result |-> result, server |-> s, domain |-> d, type |-> t]

\* a result builder that puts the time of the answer among the answers
SuccessResultTimed(result, s, d, t) ==
    [success |-> TRUE, result |-> << now >> \o result, server |-> s, domain |-> d,
     type |-> t]

\* An error string is a tuple: its fixed text, then the values put into it.
SuccessResult(result, s, d, t) ==
    [success |-> TRUE, result |-> result, server |-> s, domain |-> d, type |-> t]

\* an error result that also carries an empty result list
ErrorResultWithResult(error, s, d, t) ==
    [success |-> FALSE, error |-> error, result |-> << >>, server |-> s,
     domain |-> d, type |-> t]

ErrorResult(error, s, d, t) ==
    [success |-> FALSE, error |-> error, server |-> s, domain |-> d, type |-> t]

\* a resolve function whose latest call replaces the promise's value
ResolveLatestWins(result) ==
    /\ resolved' = << result >> \o resolved
    /\ promise' = "fulfilled"

\* the promise's resolve function: only the first call settles the promise
Resolve(result) ==
    /\ resolved' = Append(resolved, result)
    /\ promise' = "fulfilled"

\* what the caller of resolve receives
Delivered == Head(resolved)

(***************************************************************************)
(* The decoders applied to a byte sequence on its own.                     *)
(***************************************************************************)
Decode(buffer) ==
    /\ active = "none"
    /\ active' = "Codec"
    /\ decoded' = [input |-> buffer, doh |-> parseDNSMessage(buffer),
                   dot |-> parseDNSResponse(buffer)]
    /\ UNCHANGED << restVars, callVars, promise, resolved, now, blocked, dotVars, timerVars,
                    asyncVars, encoded >>

(***************************************************************************)
(* The encoder applied to a domain string on its own, and the decoders     *)
(* applied to a response made from the encoder's output.  A domain string  *)
(* is the sequence of its characters' codes; 46 is the dot.                *)
(***************************************************************************)
\* domain.split('.')
RECURSIVE split(_)
split(name) ==
    IF \A i \in 1..Len(name) : name[i] # 46 THEN << name >>
    ELSE LET k == CHOOSE i \in 1..Len(name) :
                      name[i] = 46 /\ \A j \in 1..(i - 1) : name[j] # 46
         IN  << SubSeq(name, 1, k - 1) >> \o split(SubSeq(name, k + 1, Len(name)))

\* labels joined by dots
RECURSIVE Join(_)
Join(labels) ==
    IF Len(labels) = 1 THEN labels[1]
    ELSE labels[1] \o << 46 >> \o Join(Tail(labels))

\* "a", "a.bb", "a.bb.ccc", "a." and "a..b" (an empty label), the longest
\* name whose query fits the 512-byte buffer (494 characters), a name one
\* character longer, and nine labels of 63 characters
NameABBCCC == << 97, 46, 98, 98, 46, 99, 99, 99 >>
NameTrailingDot == << 97, 46 >>
NameEmptyLabel == << 97, 46, 46, 98 >>
NameFits == Join([i \in 1..8 |-> IF i < 8 THEN Label63 ELSE [j \in 1..46 |-> 98]])
NameOver == Join([i \in 1..8 |-> IF i < 8 THEN Label63 ELSE [j \in 1..47 |-> 98]])
DomainNames ==
    { Join(DomainA), Join(DomainABB), NameABBCCC, NameTrailingDot, NameEmptyLabel,
      NameFits, NameOver, Join(DomainLong) }

EncoderTypes == Types \cup { "mx", "CNAME" }
EncoderIds == { 0, 4660, 65535 }

\* the four bytes of an IPv4 address
Addresses == { << 10, 0, 0, 1 >>, << 0, 0, 0, 0 >>, << 255, 255, 255, 255 >>,
               << 192, 12, 0, 1 >> }

\* createDNSQuery(name, type) with transaction id `id`: the bytes, or a throw
EncoderOutcome(name, type, id) ==
    IF createDNSQueryThrows(split(name))
    THEN [kind |-> "throw", name |-> name, type |-> type, id |-> id, bytes |-> << >>]
    ELSE [kind |-> "ok", name |-> name, type |-> type, id |-> id,
          bytes |-> createDNSQuery(split(name), type, id)]

Encode(name, type, id) ==
    /\ active = "none"
    /\ active' = "Encoder"
    /\ encoded' = EncoderOutcome(name, type, id)
    /\ UNCHANGED << restVars, callVars, promise, resolved, now, blocked, dotVars, timerVars,
                    asyncVars, decoded >>

\* a response made from a query: ANCOUNT set to 1 and one A record appended
\* (compression pointer to offset 12, TYPE 1, CLASS 1, TTL 60, RDLENGTH 4)
ResponseTo(query, address) ==
    [query EXCEPT ![8] = 1]
    \o << 192, 12, 0, 1, 0, 1, 0, 0, 0, 60, 0, 4 >> \o address

\* encode an A query, make the response to it and decode that
RoundTrip(name, address, id) ==
    /\ active = "none"
    /\ active' = "RoundTrip"
    /\ encoded' = EncoderOutcome(name, "A", id)
    /\ decoded' =
          IF createDNSQueryThrows(split(name)) THEN NotDecoded
          ELSE LET response == ResponseTo(createDNSQuery(split(name), "A", id), address)
               IN  [input |-> response, doh |-> parseDNSMessage(response),
                    dot |-> parseDNSResponse(response)]
    /\ UNCHANGED << restVars, callVars, promise, resolved, now, blocked, dotVars, timerVars,
                    asyncVars >>

(***************************************************************************)
(* getDNSType applied to a type string on its own, in each of the three    *)
(* classes that define it.  A type string is the sequence of its           *)
(* characters' codes.                                                      *)
(***************************************************************************)
\* a conversion that leaves the string as it is
keepCase(text) == text

\* text.toUpperCase() on ASCII text
toUpperCaseText(text) ==
    [i \in 1..Len(text) |-> IF text[i] >= 97 /\ text[i] <= 122 THEN text[i] - 32
                            ELSE text[i]]

\* the object literal `types` of DoHResolver.getDNSType, as (key, value) pairs
typesDoH ==
    { << << 65 >>, 1 >>, << << 65, 65, 65, 65 >>, 28 >>, << << 77, 88 >>, 15 >>,
      << << 84, 88, 84 >>, 16 >>, << << 78, 83 >>, 2 >>,
      << << 67, 78, 65, 77, 69 >>, 5 >>, << << 83, 79, 65 >>, 6 >>,
      << << 80, 84, 82 >>, 12 >> }

\* the same literal in DoTResolver.getDNSType
typesDoT ==
    { << << 65 >>, 1 >>, << << 65, 65, 65, 65 >>, 28 >>, << << 77, 88 >>, 15 >>,
      << << 84, 88, 84 >>, 16 >>, << << 78, 83 >>, 2 >>,
      << << 67, 78, 65, 77, 69 >>, 5 >>, << << 83, 79, 65 >>, 6 >>,
      << << 80, 84, 82 >>, 12 >> }

\* the same literal in DoQResolver.getDNSType
typesDoQ ==
    { << << 65 >>, 1 >>, << << 65, 65, 65, 65 >>, 28 >>, << << 77, 88 >>, 15 >>,
      << << 84, 88, 84 >>, 16 >>, << << 78, 83 >>, 2 >>,
      << << 67, 78, 65, 77, 69 >>, 5 >>, << << 83, 79, 65 >>, 6 >>,
      << << 80, 84, 82 >>, 12 >> }

\* types[type.toUpperCase()] || 1
getDNSTypeIn(types, text) ==
    LET hits == { p \in types : p[1] = toUpperCaseText(text) }
    IN  IF hits = { } THEN 1
        ELSE LET v == (CHOOSE p \in hits : TRUE)[2] IN IF v = 0 THEN 1 ELSE v

\* text.toLowerCase() on ASCII text, and a text with its first letter in
\* upper case and the rest in lower case
toLowerCaseText(text) ==
    [i \in 1..Len(text) |-> IF text[i] >= 65 /\ text[i] <= 90 THEN text[i] + 32
                            ELSE text[i]]
Capitalised(text) ==
    [i \in 1..Len(text) |-> IF i = 1 THEN toUpperCaseText(text)[i]
                            ELSE toLowerCaseText(text)[i]]

\* the type strings of the model: every key in upper, lower and mixed case,
\* and "", "ANY", "bogus" and "A1"
TypeTexts ==
    UNION { { p[1], toLowerCaseText(p[1]), Capitalised(p[1]) } : p \in typesDoH }
    \cup { << >>, << 65, 78, 89 >>, << 98, 111, 103, 117, 115 >>, << 65, 49 >> }

TypeLookup(text) ==
    /\ active = "none"
    /\ active' = "TypeLookup"
    /\ decoded' = [input |-> text, doh |-> getDNSTypeIn(typesDoH, text),
                   dot |-> getDNSTypeIn(typesDoT, text),
                   doq |-> getDNSTypeIn(typesDoQ, text)]
    /\ UNCHANGED << restVars, callVars, promise, resolved, now, blocked, dotVars, timerVars,
                    asyncVars, encoded >>

(***************************************************************************)
(* DoTResolver.resolve.                                                    *)
(***************************************************************************)
\* net.Socket.connect validates the port before it returns
PortValid(port) == port >= 0 /\ port <= 65535

\* server.port || 853
DoTPort(s) == IF s.port = 0 THEN 853 ELSE s.port

\* socket.destroy()
Destroy(s) == IF s \in { "connecting", "open" } THEN "destroyed" ELSE s

\* a cleanup that destroys the socket and leaves the timer pending
cleanupSocketOnly(state) ==
    /\ timerArmed' = timerArmed
    /\ socket' = Destroy(state)

\* a cleanup that clears the timer and leaves the socket alone
cleanupTimerOnly(state) ==
    /\ timerArmed' = IF timeoutHandle THEN FALSE ELSE timerArmed
    /\ socket' = state

\* const cleanup = () => { if (timeoutHandle) clearTimeout(timeoutHandle); socket.destroy(); }
\* state is the socket's state when the handler that calls cleanup runs
cleanup(state) ==
    /\ timerArmed' = IF timeoutHandle THEN FALSE ELSE timerArmed
    /\ socket' = Destroy(state)

\* The call itself: tls.connect, the timer, the handlers.  tls.connect throws
\* inside the promise executor when the port is out of range, and the
\* executor's throw rejects the promise.
DoTResolve(d, s, t, stream) ==
    /\ active = "none"
    /\ active' = "DoT"
    /\ server' = s
    /\ domain' = d
    /\ qtype' = t
    /\ IF PortValid(DoTPort(s))
       THEN /\ promise' = "pending"
            /\ socket' = "connecting"
            /\ timeoutHandle' = TRUE
            /\ timerArmed' = TRUE
            /\ deadline' = now + timeout.DoT
            /\ wire' = stream
       ELSE /\ promise' = "rejected"
            /\ UNCHANGED << socket, timeoutHandle, timerArmed, deadline, wire >>
    /\ UNCHANGED << restVars, resolved, now, blocked, responseBuffer, expectedLength,
                    written, asyncVars, codecVars >>

\* a timer callback that tears the connection down and resolves nothing
DoTTimeoutSilent ==
    /\ active = "DoT" /\ ~blocked
    /\ timerArmed /\ now = deadline
    /\ cleanup(socket)
    /\ UNCHANGED << restVars, active, callVars, promise, resolved, now, blocked, timeoutHandle,
                    deadline, responseBuffer, expectedLength, wire, written,
                    asyncVars, codecVars >>

\* the timer's callback (the timer has fired, so it is no longer pending)
DoTTimeout ==
    /\ active = "DoT" /\ ~blocked
    /\ timerArmed /\ now = deadline
    /\ cleanup(socket)
    /\ Resolve(ErrorResult(<< "Connection timeout" >>, server, domain, qtype))
    /\ UNCHANGED << restVars, active, callVars, now, blocked, timeoutHandle, deadline,
                    responseBuffer, expectedLength, wire, written, asyncVars, codecVars >>

\* socket.on('connect'): build the query and write it; a throw is caught
DoTConnect(id) ==
    /\ active = "DoT" /\ ~blocked
    /\ socket = "connecting"
    /\ IF createDNSQueryThrows(domain)
       THEN /\ cleanup("open")
            /\ Resolve(ErrorResult(<< "RangeError" >>, server, domain, qtype))
            /\ UNCHANGED written
       ELSE /\ socket' = "open"
            /\ written' = Append(written, LengthPrefixed(createDNSQuery(domain, qtype, id)))
            /\ UNCHANGED << timerArmed, promise, resolved >>
    /\ UNCHANGED << restVars, active, callVars, now, blocked, timeoutHandle, deadline,
                    responseBuffer, expectedLength, wire, asyncVars, codecVars >>

\* a frame that is everything received so far, whatever its declared length
FrameWhole(buffer, length) == buffer

\* responseBuffer.slice(0, expectedLength)
Frame(buffer, length) == SubSeq(buffer, 1, length)

\* a data handler that reads a length from the front of the buffer on every chunk
DoTDataRereading(k) ==
    /\ active = "DoT" /\ ~blocked
    /\ socket = "open"
    /\ k \in 1..Len(wire)
    /\ wire' = SubSeq(wire, k + 1, Len(wire))
    /\ LET concat   == responseBuffer \o SubSeq(wire, 1, k)
           readLen  == Len(concat) >= 2
           length   == IF readLen THEN readUInt16BE(concat, 0) ELSE expectedLength
           buffer   == IF readLen THEN SubSeq(concat, 3, Len(concat)) ELSE concat
           complete == length # Null /\ Len(buffer) >= length
           response == Frame(buffer, length)
           outcome  == parseDNSResponse(response)
       IN  /\ expectedLength' = length
           /\ responseBuffer' = buffer
           /\ IF ~complete
              THEN UNCHANGED << socket, timerArmed, promise, resolved, blocked >>
              ELSE IF outcome.kind = "hang"
              THEN /\ blocked' = TRUE
                   /\ UNCHANGED << socket, timerArmed, promise, resolved >>
              ELSE IF outcome.kind = "ok"
              THEN /\ cleanup(socket)
                   /\ Resolve(SuccessResult(outcome.answers, server, domain, qtype)
                           @@ [rawResponse |-> response])
                   /\ UNCHANGED blocked
              ELSE /\ cleanup(socket)
                   /\ Resolve(ErrorResult(<< "Failed to parse DoT response" >>, server, domain, qtype))
                   /\ UNCHANGED blocked
    /\ UNCHANGED << restVars, active, callVars, now, timeoutHandle, deadline, written,
                    asyncVars, codecVars >>

\* socket.on('data') for a chunk of k bytes.  The outer catch is not
\* modelled: Buffer.concat, readUInt16BE(0) on two or more bytes and slice
\* do not throw.
DoTData(k) ==
    /\ active = "DoT" /\ ~blocked
    /\ socket = "open"
    /\ k \in 1..Len(wire)
    /\ wire' = SubSeq(wire, k + 1, Len(wire))
    /\ LET concat   == responseBuffer \o SubSeq(wire, 1, k)
           readLen  == expectedLength = Null /\ Len(concat) >= 2
           length   == IF readLen THEN readUInt16BE(concat, 0) ELSE expectedLength
           buffer   == IF readLen THEN SubSeq(concat, 3, Len(concat)) ELSE concat
           complete == length # Null /\ Len(buffer) >= length
           response == Frame(buffer, length)
           outcome  == parseDNSResponse(response)
       IN  /\ expectedLength' = length
           /\ responseBuffer' = buffer
           /\ IF ~complete
              THEN UNCHANGED << socket, timerArmed, promise, resolved, blocked >>
              ELSE IF outcome.kind = "hang"
              THEN /\ blocked' = TRUE
                   /\ UNCHANGED << socket, timerArmed, promise, resolved >>
              ELSE IF outcome.kind = "ok"
              THEN /\ cleanup(socket)
                   /\ Resolve(SuccessResult(outcome.answers, server, domain, qtype)
                           @@ [rawResponse |-> response])
                   /\ UNCHANGED blocked
              ELSE /\ cleanup(socket)
                   /\ Resolve(ErrorResult(<< "Failed to parse DoT response" >>, server, domain, qtype))
                   /\ UNCHANGED blocked
    /\ UNCHANGED << restVars, active, callVars, now, timeoutHandle, deadline, written,
                    asyncVars, codecVars >>

\* socket.on('error'): Node has destroyed the socket when it emits 'error'
DoTError(message) ==
    /\ active = "DoT" /\ ~blocked
    /\ socket \in { "connecting", "open" }
    /\ cleanup("destroyed")
    /\ Resolve(ErrorResult(<< message >>, server, domain, qtype))
    /\ UNCHANGED << restVars, active, callVars, now, blocked, timeoutHandle, deadline,
                    responseBuffer, expectedLength, wire, written, asyncVars, codecVars >>

\* a close handler that tidies up and resolves nothing
DoTCloseSilent ==
    /\ active = "DoT" /\ ~blocked
    /\ socket \in { "open", "destroyed" }
    /\ cleanup("closed")
    /\ UNCHANGED << restVars, active, callVars, promise, resolved, now, blocked, timeoutHandle,
                    deadline, responseBuffer, expectedLength, wire, written,
                    asyncVars, codecVars >>

\* socket.on('close'): emitted once, after the peer closed an open
\* connection or after the socket was destroyed.  timeoutHandle still holds
\* the timer object (clearTimeout does not reset the variable).
DoTClose ==
    /\ active = "DoT" /\ ~blocked
    /\ socket \in { "open", "destroyed" }
    /\ IF timeoutHandle
       THEN /\ cleanup("closed")
            /\ Resolve(ErrorResult(<< "Connection closed unexpectedly" >>, server, domain, qtype))
       ELSE /\ socket' = "closed"
            /\ UNCHANGED << timerArmed, promise, resolved >>
    /\ UNCHANGED << restVars, active, callVars, now, blocked, timeoutHandle, deadline,
                    responseBuffer, expectedLength, wire, written, asyncVars, codecVars >>

(***************************************************************************)
(* DoHResolver (src/lib/doh-resolver.js, the one server.js imports).       *)
(* A server address is the list of the pieces of its text, so that         *)
(* serverAddress.includes(key) is: key is one of the pieces.               *)
(***************************************************************************)
Includes(address, key) == \E i \in 1..Len(address) : address[i] = key

\* new URL(address) throws unless the text starts with a scheme
URLValid(address) == Len(address) > 0 /\ address[1] = "https://"

\* this.providerConfigs, in insertion order
providerConfigs ==
    << [key |-> "dns.google",           method |-> "POST", format |-> "wireformat"],
       [key |-> "dns10.quad9.net",      method |-> "POST", format |-> "wireformat"],
       [key |-> "doh.opendns.com",      method |-> "POST", format |-> "wireformat"],
       [key |-> "dns.adguard-dns.com",  method |-> "POST", format |-> "wireformat"],
       [key |-> "freedns.controld.com", method |-> "POST", format |-> "wireformat"],
       [key |-> "dns.mullvad.net",      method |-> "POST", format |-> "wireformat"],
       [key |-> "cloudflare-dns.com",   method |-> "GET",  format |-> "json"],
       [key |-> "dns.nextdns.io",       method |-> "GET",  format |-> "json"] >>

\* getProviderConfig(serverAddress): the first table entry whose key the
\* address includes, else GET + json
getProviderConfig(serverAddress) ==
    LET hits == { i \in 1..Len(providerConfigs) :
                    Includes(serverAddress, providerConfigs[i].key) }
    IN  IF hits = { }
        THEN [method |-> "GET", format |-> "json"]
        ELSE LET i == CHOOSE j \in hits : \A h \in hits : j <= h
             IN  [method |-> providerConfigs[i].method, format |-> providerConfigs[i].format]

\* resolve, lines 38-42: which resolveWith... the try block calls
PrimaryMethod(config) ==
    IF config.method = "POST" /\ config.format = "wireformat" THEN "POST" ELSE "GET"

\* a catch block that repeats the try block's choice
FallbackMethodSame(config) ==
    IF config.method = "POST" /\ config.format = "wireformat" THEN "POST" ELSE "GET"

\* resolve, lines 51-55: which resolveWith... the catch block calls
FallbackMethod(config) == IF config.method = "POST" THEN "GET" ELSE "POST"

\* thrown errors: name, code and message (a tuple, like the error strings)
Error(name, code, message) == [name |-> name, code |-> code, message |-> message]
NoError == Error("none", "", << >>)
AbortError == Error("AbortError", "", << "The user aborted a request." >>)
InvalidURL == Error("TypeError", "ERR_INVALID_URL", << "Invalid URL" >>)
RangeError == Error("RangeError", "ERR_OUT_OF_RANGE", << "RangeError" >>)
NetworkError(code) == Error("FetchError", code, << "request failed", code >>)
HTTPError == Error("Error", "", << "HTTP 500: Internal Server Error" >>)
UnexpectedContentType(ct) == Error("Error", "", << "Unexpected content type:", ct >>)
InvalidContentType(ct) == Error("Error", "", << "Invalid content type:", ct >>)
JSONSyntaxError == Error("SyntaxError", "", << "Unexpected token" >>)
JSONParseFailed == Error("Error", "", << "Failed to parse JSON response:", "Unexpected token" >>)
StatusError(n) == Error("Error", "", << "DNS query failed with status:", ToString(n) >>)

\* error.message.includes('Unexpected token')
IncludesUnexpectedToken(message) ==
    \E i \in 1..Len(message) : message[i] = "Unexpected token"

\* handleError
handleError(error, s, d, t) ==
    ErrorResult(
        IF error.name = "AbortError" THEN << "Request timeout after", timeout.DoH, "ms" >>
        ELSE IF error.code = "ENOTFOUND" THEN << "DNS server not found:", s.address >>
        ELSE IF error.code = "ECONNREFUSED" THEN << "Connection refused to", s.address >>
        ELSE IF IncludesUnexpectedToken(error.message)
        THEN << "Invalid JSON response from DoH server" >>
        ELSE error.message,
        s, d, t)

\* contentType.includes(...) on the content types of the model
IsDnsMessage(ct) == ct = "application/dns-message"
\* a JSON test that any content-type header passes
IsJsonAny(ct) == ct # "null"

IsJson(ct) == ct \in { "application/json", "application/dns-json" }
ContentTypes == { "application/dns-message", "application/json",
                  "application/dns-json", "text/html", "null" }

\* an extraction that keeps every entry with a data field, whatever its type
extractAnswersAnyType(data, dnsType) ==
    LET answers == IF data.hasAnswer THEN data.Answer ELSE << >>
        kept    == SelectSeq(answers, LAMBDA a : a.hasData)
    IN  [i \in 1..Len(kept) |-> kept[i].data]

\* extractAnswersFromJSON(data, dnsType); data.Answer || []
extractAnswersFromJSON(data, dnsType) ==
    LET answers == IF data.hasAnswer THEN data.Answer ELSE << >>
        kept    == SelectSeq(answers,
                             LAMBDA a : a.hasType /\ a.hasData /\ a.type = dnsType)
    IN  [i \in 1..Len(kept) |-> kept[i].data]

\* what an attempt does before it first awaits: getDNSType, new URL, and for
\* POST createDNSMessage.  The result is the error thrown, or NoError.
SyncError(method, s, d) ==
    IF ~URLValid(s.address) THEN InvalidURL
    ELSE IF method = "POST" /\ createDNSQueryThrows(d) THEN RangeError
    ELSE NoError

\* Run the attempts in methods until one reaches its fetch: the control
\* state after the synchronous part of resolve (or of its catch block).
RECURSIVE Proceed(_, _, _, _, _)
Proceed(methods, tried, thrown, s, d) ==
    IF methods = << >> THEN [pc |-> "done", attempts |-> tried, failures |-> thrown]
    ELSE LET e == SyncError(Head(methods), s, d)
         IN  IF e = NoError
             THEN [pc |-> "fetch", attempts |-> Append(tried, Head(methods)),
                   failures |-> thrown]
             ELSE Proceed(Tail(methods), Append(tried, Head(methods)),
                          Append(thrown, e), s, d)

\* a catch block that hands handleError the first error thrown in the call
ContinueFirstError(methods, tried, thrown, s, d, t) ==
    LET p == Proceed(methods, tried, thrown, s, d)
    IN  /\ pc' = p.pc
        /\ attempts' = p.attempts
        /\ failures' = p.failures
        /\ contentType' = "none"
        /\ IF p.pc = "done"
           THEN /\ resolved' = Append(resolved, handleError(p.failures[1], s, d, t))
                /\ promise' = "fulfilled"
                /\ timerArmed' = FALSE
                /\ UNCHANGED deadline
           ELSE /\ promise' = "pending"
                /\ timerArmed' = TRUE
                /\ deadline' = now + timeout.DoH
                /\ UNCHANGED resolved

\* the state after Proceed: an attempt is in flight with its abort timer
\* armed, or both attempts threw and handleError made the result
Continue(methods, tried, thrown, s, d, t) ==
    LET p == Proceed(methods, tried, thrown, s, d)
    IN  /\ pc' = p.pc
        /\ attempts' = p.attempts
        /\ failures' = p.failures
        /\ contentType' = "none"
        /\ IF p.pc = "done"
           THEN /\ resolved' = Append(resolved,
                                      handleError(p.failures[Len(p.failures)], s, d, t))
                /\ promise' = "fulfilled"
                /\ timerArmed' = FALSE
                /\ UNCHANGED deadline
           ELSE /\ promise' = "pending"
                /\ timerArmed' = TRUE
                /\ deadline' = now + timeout.DoH
                /\ UNCHANGED resolved

\* a resolve that sends the primary and the fallback request together
DoHResolveBoth(d, s, t) ==
    /\ active = "none"
    /\ active' = "DoH"
    /\ server' = s
    /\ domain' = d
    /\ qtype' = t
    /\ LET config == getProviderConfig(s.address)
       IN  /\ pc' = "fetch"
           /\ attempts' = << PrimaryMethod(config), FallbackMethod(config) >>
           /\ failures' = << >>
           /\ contentType' = "none"
           /\ promise' = "pending"
           /\ timerArmed' = TRUE
           /\ deadline' = now + timeout.DoH
           /\ UNCHANGED resolved
    /\ UNCHANGED << restVars, now, blocked, dotVars, lookups, codecVars >>

\* resolve(domain, server, type)
DoHResolve(d, s, t) ==
    /\ active = "none"
    /\ active' = "DoH"
    /\ server' = s
    /\ domain' = d
    /\ qtype' = t
    /\ LET config == getProviderConfig(s.address)
       IN  Continue(<< PrimaryMethod(config), FallbackMethod(config) >>,
                    << >>, << >>, s, d, t)
    /\ UNCHANGED << restVars, now, blocked, dotVars, lookups, codecVars >>

\* the attempt in flight throws error: the primary's throw starts the
\* fallback, the fallback's throw goes to handleError
AttemptFails(error) ==
    LET config == getProviderConfig(server.address)
        rest   == IF Len(attempts) = 1 THEN << FallbackMethod(config) >> ELSE << >>
    IN  Continue(rest, attempts, Append(failures, error), server, domain, qtype)

\* the attempt in flight returns finalResult
AttemptSucceeds(result) ==
    /\ pc' = "done"
    /\ resolved' = Append(resolved, result)
    /\ promise' = "fulfilled"
    /\ UNCHANGED << attempts, failures, contentType, timerVars >>

CurrentMethod == attempts[Len(attempts)]

\* setTimeout(() => controller.abort(), this.timeout) fires during fetch
DoHAbort ==
    /\ active = "DoH" /\ pc = "fetch" /\ ~blocked
    /\ timerArmed /\ now = deadline
    /\ AttemptFails(AbortError)
    /\ UNCHANGED << restVars, active, callVars, now, blocked, dotVars, lookups, codecVars >>

\* fetch rejects: the host is unknown or refuses the connection
DoHFetchError(code) ==
    /\ active = "DoH" /\ pc = "fetch" /\ ~blocked
    /\ AttemptFails(NetworkError(code))
    /\ UNCHANGED << restVars, active, callVars, now, blocked, dotVars, lookups, codecVars >>

\* fetch resolves with the response's status and headers; clearTimeout
DoHHeaders(ok, ct) ==
    /\ active = "DoH" /\ pc = "fetch" /\ ~blocked
    /\ IF ~ok THEN AttemptFails(HTTPError)
       ELSE IF CurrentMethod = "GET" /\ ~IsDnsMessage(ct) /\ ~IsJson(ct)
       THEN AttemptFails(InvalidContentType(ct))
       ELSE /\ pc' = "body"
            /\ contentType' = ct
            /\ timerArmed' = FALSE
            /\ UNCHANGED << attempts, failures, promise, resolved, deadline >>
    /\ UNCHANGED << restVars, active, callVars, now, blocked, dotVars, lookups, codecVars >>

\* a method field that names the configured method (as the dohjs variant does)
MethodNameConfigured(method, ct) == getProviderConfig(server.address).method

\* the method field of finalResult: 'POST', 'GET-binary' or 'GET-json'
MethodName(method, ct) ==
    IF method = "POST" THEN "POST"
    ELSE IF IsDnsMessage(ct) THEN "GET-binary" ELSE "GET-json"

\* a JSON body: valid is false when JSON.parse throws on the text
Json(valid, status, hasAnswer, answer) ==
    [valid |-> valid, Status |-> status, hasAnswer |-> hasAnswer, Answer |-> answer]
NotJson == Json(FALSE, 0, FALSE, << >>)

\* an entry of the Answer array; type or data may be missing
Entry(hasType, type, hasData, data) ==
    [hasType |-> hasType, type |-> type, hasData |-> hasData, data |-> data]

\* {"Status":0,"Answer":[{"type":1,"data":"10.0.0.1"},{"type":5,"data":"b"},{"type":1}]}
JsonAnswerText ==
    << 123, 34, 83, 116, 97, 116, 117, 115, 34, 58, 48, 44, 34, 65, 110, 115, 119,
       101, 114, 34, 58, 91, 123, 34, 116, 121, 112, 101, 34, 58, 49, 44, 34, 100,
       97, 116, 97, 34, 58, 34, 49, 48, 46, 48, 46, 48, 46, 49, 34, 125, 44, 123,
       34, 116, 121, 112, 101, 34, 58, 53, 44, 34, 100, 97, 116, 97, 34, 58, 34,
       98, 34, 125, 44, 123, 34, 116, 121, 112, 101, 34, 58, 49, 125, 93, 125 >>
JsonAnswer ==
    Json(TRUE, 0, TRUE, << Entry(TRUE, 1, TRUE, << "A", 10, 0, 0, 1 >>),
                           Entry(TRUE, 5, TRUE, << "b" >>),
                           Entry(TRUE, 1, FALSE, << >>) >>)
\* {"Status":3} and {"Status":0}
JsonStatus3Text == << 123, 34, 83, 116, 97, 116, 117, 115, 34, 58, 51, 125 >>
JsonStatus0Text == << 123, 34, 83, 116, 97, 116, 117, 115, 34, 58, 48, 125 >>
\* <html>
HtmlText == << 60, 104, 116, 109, 108, 62 >>

\* the bodies an upstream may send: their bytes, and what JSON.parse makes of
\* their text
DoHBodies ==
    { [bytes |-> JsonAnswerText, json |-> JsonAnswer],
      [bytes |-> JsonStatus3Text, json |-> Json(TRUE, 3, FALSE, << >>)],
      [bytes |-> JsonStatus0Text, json |-> Json(TRUE, 0, FALSE, << >>)],
      [bytes |-> HtmlText, json |-> NotJson] }
    \cup { [bytes |-> m, json |-> NotJson] :
             m \in { Header(1, 1) \o Question \o RecA,
                     Header(1, 2) \o Question \o RecCNAME \o RecALabel,
                     Header(1, 0) \o Question,
                     Header(1, 1) \o Question \o SubSeq(RecA, 1, 13),
                     Header(1, 1) \o << 1, 97 >> } }

\* largest number of entries in a generated Answer array
MaxEntries == 3

\* entries of an Answer array: two A entries, an AAAA entry, an entry with
\* no data field and an entry with no type field
Entries ==
    { Entry(TRUE, 1, TRUE, << "A", 10, 0, 0, 1 >>),
      Entry(TRUE, 1, TRUE, << "A", 10, 0, 0, 2 >>),
      Entry(TRUE, 28, TRUE, << "AAAA", 8193, 3512, 0, 0, 0, 0, 0, 1 >>),
      Entry(TRUE, 1, FALSE, << >>),
      Entry(FALSE, 0, TRUE, << "A", 10, 0, 0, 3 >>) }

\* parsed bodies: no Answer key, or an Answer array of up to MaxEntries entries
JsonBodies ==
    { Json(TRUE, 0, FALSE, << >>) }
    \cup { Json(TRUE, 0, TRUE, a) : a \in UNION { [1..k -> Entries] : k \in 0..MaxEntries } }

\* the numeric codes extraction is called with
DnsTypes == { 1, 5, 28 }

\* extractAnswersFromJSON applied to a parsed body on its own
Extract(data, dnsType) ==
    /\ active = "none"
    /\ active' = "Extract"
    /\ decoded' = [input |-> data, dnsType |-> dnsType,
                   answers |-> extractAnswersFromJSON(data, dnsType)]
    /\ UNCHANGED << restVars, callVars, promise, resolved, now, blocked, dotVars, timerVars,
                    asyncVars, encoded >>

\* response.arrayBuffer() / response.text() completes with body: decode by
\* content type and build finalResult, or throw
DoHBody(body) ==
    /\ active = "DoH" /\ pc = "body" /\ ~blocked
    /\ LET dnsType == getDNSType(qtype)
           wire_   == parseDNSMessage(body.bytes)
           data    == body.json
       IN  IF IsDnsMessage(contentType)
           THEN IF wire_.kind = "hang"
                THEN /\ blocked' = TRUE
                     /\ UNCHANGED << pc, attempts, failures, contentType, promise,
                                     resolved, timerVars >>
                ELSE /\ AttemptSucceeds(
                            SuccessResult(wire_.answers, server, domain, qtype)
                            @@ [method |-> MethodName(CurrentMethod, contentType)])
                     /\ UNCHANGED blocked
           ELSE /\ UNCHANGED blocked
                /\ IF CurrentMethod = "POST"
                   THEN IF ~IsJson(contentType)
                        THEN AttemptFails(UnexpectedContentType(contentType))
                        ELSE IF ~data.valid THEN AttemptFails(JSONSyntaxError)
                        ELSE AttemptSucceeds(
                                SuccessResult(extractAnswersFromJSON(data, dnsType),
                                              server, domain, qtype)
                                @@ [method |-> MethodName(CurrentMethod, contentType)])
                   ELSE IF ~data.valid THEN AttemptFails(JSONParseFailed)
                        ELSE IF data.Status # 0 THEN AttemptFails(StatusError(data.Status))
                        ELSE AttemptSucceeds(
                                SuccessResult(extractAnswersFromJSON(data, dnsType),
                                              server, domain, qtype)
                                @@ [method |-> MethodName(CurrentMethod, contentType),
                                    rawResponse |-> data])
    /\ UNCHANGED << restVars, active, callVars, now, dotVars, lookups, codecVars >>

\* server descriptors of the DoH transport: two built-in providers, a custom
\* provider as createProviderObject makes it, a provider with no method and
\* format, and an address that is not a URL
DoHServers ==
    { [type |-> "DoH", name |-> "google", port |-> 443, method |-> "undefined",
       format |-> "undefined",
       address |-> << "https://", "dns.google", "/dns-query" >>],
      [type |-> "DoH", name |-> "cloudflare", port |-> 443, method |-> "undefined",
       format |-> "undefined",
       address |-> << "https://", "cloudflare-dns.com", "/dns-query" >>],
      [type |-> "DoH", name |-> "custom", port |-> 443, method |-> "POST",
       format |-> "wireformat",
       address |-> << "https://", "doh.example.org", "/dns-query" >>],
      [type |-> "DoH", name |-> "plain", port |-> 443, method |-> "undefined",
       format |-> "undefined",
       address |-> << "https://", "doh.example.net" >>],
      [type |-> "DoH", name |-> "bad", port |-> 443, method |-> "undefined",
       format |-> "undefined",
       address |-> << "dns.google" >>] }

(***************************************************************************)
(* DNSResolver.resolve (the Classic transport).                            *)
(***************************************************************************)
\* type.toLowerCase() on the type strings of the model
toLowerCase(type) ==
    CASE type = "A"     -> "a"
      [] type = "AAAA"  -> "aaaa"
      [] type = "Mx"    -> "mx"
      [] type = "NS"    -> "ns"
      [] type = "Cname" -> "cname"
      [] type = "SOA"   -> "soa"
      [] OTHER          -> type

\* the switch on type.toLowerCase(): the resolver method called
LookupKind(type) ==
    LET t == toLowerCase(type)
    IN  CASE t = "a"     -> "resolve4"
          [] t = "aaaa"  -> "resolve6"
          [] t = "mx"    -> "resolveMx"
          [] t = "txt"   -> "resolveTxt"
          [] t = "ns"    -> "resolveNs"
          [] t = "cname" -> "resolveCname"
          [] OTHER       -> "resolve4"

\* An IP address as the resolver client reads it: four octets, or the 16-bit
\* groups of an IPv6 text before and after its "::" (gap is false when the
\* text has no "::"); v = 0 is a text that is not an IP address.
V4(octets) == [v |-> 4, octets |-> octets]
V6(head, gap, tail) == [v |-> 6, head |-> head, gap |-> gap, tail |-> tail]
NotIP == [v |-> 0]

\* net.isIP on an IPv6 text: eight groups, or "::" and at most seven
IsIPv6(ip) ==
    IF ip.gap THEN Len(ip.head) + Len(ip.tail) <= 7
    ELSE Len(ip.head) + Len(ip.tail) = 8

\* the value of a port's decimal digits read as a hexadecimal group
RECURSIVE DigitsAsHex(_)
DigitsAsHex(n) == IF n < 10 THEN n ELSE DigitsAsHex(n \div 10) * 16 + (n % 10)

\* server.port || 53
ClassicPort(s) == IF s.port = 0 THEN 53 ELSE s.port

\* resolver.setServers([`${server.address}:${server.port || 53}`]): the
\* server the client will query, or a throw.  The client first tests the
\* whole text with isIP and uses it with port 53 if it is an address; only
\* then does it split a trailing ":port" off.  After an IPv6 text the
\* appended ":port" reads as one more group when the port has at most four
\* digits.
setServers(s) ==
    LET port     == ClassicPort(s)
        appended == V6(s.ip.head, s.ip.gap, Append(s.ip.tail, DigitsAsHex(port)))
    IN  IF s.ip.v = 4 THEN [kind |-> "ok", ip |-> s.ip, port |-> port]
        ELSE IF s.ip.v = 6 /\ port < 10000 /\ IsIPv6(appended)
        THEN [kind |-> "ok", ip |-> appended, port |-> 53]
        ELSE IF s.ip.v = 6 /\ IsIPv6(s.ip)
        THEN [kind |-> "ok", ip |-> s.ip, port |-> port]
        ELSE [kind |-> "throw"]

\* 8.8.8.8, 2001:4860:4860::8888 with no port, the same address written in
\* full with port 53, and a host name
ClassicServers ==
    { [type |-> "IPv4", name |-> "google", address |-> << "8.8.8.8" >>, port |-> 53,
       ip |-> V4(<< 8, 8, 8, 8 >>)],
      [type |-> "IPv6", name |-> "google6", address |-> << "2001:4860:4860::8888" >>,
       port |-> 0, ip |-> V6(<< 8193, 18528, 18528 >>, TRUE, << 34952 >>)],
      [type |-> "IPv6", name |-> "google6full",
       address |-> << "2001:4860:4860:0:0:0:0:8888" >>, port |-> 53,
       ip |-> V6(<< 8193, 18528, 18528, 0, 0, 0, 0, 34952 >>, FALSE, << >>)],
      [type |-> "IPv4", name |-> "bad", address |-> << "dns.example" >>, port |-> 53,
       ip |-> NotIP] }

\* the (domain, type) pairs the Classic resolve is called with
ClassicQueries ==
    { << DomainA, t >> : t \in { "A", "AAAA", "aaaa", "Mx", "txt", "NS", "Cname",
                                 "SOA", "bogus" } }

\* what the resolver client returns, and the messages it rejects with
ClassicAnswers == { << >>, << << "A", 10, 0, 0, 1 >> >> }
ClassicErrors == { "queryA ENOTFOUND", "queryA ETIMEOUT" }

\* resolve up to its await: everything is inside the try block
ClassicResolve(d, s, t) ==
    /\ active = "none"
    /\ active' = "Classic"
    /\ server' = s
    /\ domain' = d
    /\ qtype' = t
    /\ IF setServers(s).kind = "ok"
       THEN /\ lookups' = Append(lookups, [kind |-> LookupKind(t),
                                           ip |-> setServers(s).ip,
                                           port |-> setServers(s).port])
            /\ pc' = "query"
            /\ promise' = "pending"
            /\ UNCHANGED resolved
       ELSE /\ pc' = "done"
            /\ resolved' = Append(resolved,
                                  ErrorResult(<< "Invalid IP address" >>, s, d, t))
            /\ promise' = "fulfilled"
            /\ UNCHANGED lookups
    /\ UNCHANGED << restVars, now, blocked, dotVars, timerVars, attempts, failures,
                    contentType, codecVars >>

\* the awaited lookup resolves with result
ClassicAnswer(result) ==
    /\ active = "Classic" /\ pc = "query"
    /\ pc' = "done"
    /\ Resolve(SuccessResult(result, server, domain, qtype))
    /\ UNCHANGED << restVars, active, callVars, now, blocked, dotVars, timerVars, attempts,
                    failures, contentType, lookups, codecVars >>

\* the awaited lookup rejects: the catch block returns errorResult
ClassicError(message) ==
    /\ active = "Classic" /\ pc = "query"
    /\ pc' = "done"
    /\ Resolve(ErrorResult(<< message >>, server, domain, qtype))
    /\ UNCHANGED << restVars, active, callVars, now, blocked, dotVars, timerVars, attempts,
                    failures, contentType, lookups, codecVars >>

(***************************************************************************)
(* DoQResolver.resolve.                                                    *)
(***************************************************************************)
DoQServers ==
    { [type |-> "DoQ", name |-> "doq", address |-> << "dns.adguard-dns.com" >>,
       port |-> 853] }

\* a resolve that sends the query it can build before it gives up
DoQResolveSending(d, s, t) ==
    /\ active = "none"
    /\ active' = "DoQ"
    /\ server' = s
    /\ domain' = d
    /\ qtype' = t
    /\ written' = Append(written, createDNSQuery(d, t, 0))
    /\ resolved' = Append(resolved,
           ErrorResult(<< "DNS over QUIC (DoQ) is not yet implemented in this version. QUIC protocol support requires additional dependencies." >>,
                       s, d, t)
           @@ [note |-> "DoQ implementation would require libraries like @quic/quic or similar QUIC protocol implementations"])
    /\ promise' = "fulfilled"
    /\ UNCHANGED << restVars, now, blocked, socket, timeoutHandle, responseBuffer,
                    expectedLength, wire, timerVars, asyncVars, codecVars >>

\* resolve: the try block builds the result and returns it; nothing in it
\* can throw, so the catch block is never entered
DoQResolve(d, s, t) ==
    /\ active = "none"
    /\ active' = "DoQ"
    /\ server' = s
    /\ domain' = d
    /\ qtype' = t
    /\ resolved' = Append(resolved,
           ErrorResult(<< "DNS over QUIC (DoQ) is not yet implemented in this version. QUIC protocol support requires additional dependencies." >>,
                       s, d, t)
           @@ [note |-> "DoQ implementation would require libraries like @quic/quic or similar QUIC protocol implementations"])
    /\ promise' = "fulfilled"
    /\ UNCHANGED << restVars, now, blocked, dotVars, timerVars, asyncVars, codecVars >>

(***************************************************************************)
(* Time.  The clock does not pass the expiry of a pending timer unless the *)
(* event loop is blocked.                                                  *)
(***************************************************************************)
TimerPending == timerArmed

Tick ==
    /\ promise = "pending"
    /\ now < MaxTime
    /\ (TimerPending /\ ~blocked) => now < deadline
    /\ now' = now + 1
    /\ UNCHANGED << restVars, active, callVars, promise, resolved, blocked, dotVars, timerVars,
                    asyncVars, codecVars >>

SocketErrors == { "ECONNRESET" }
NetworkErrorCodes == { "ENOTFOUND", "ECONNREFUSED" }

\* One call, or one application of a codec function, from the initial state;
\* where the inputs are many the guard of the action is stated before they
\* are drawn.
Next ==
    \/ active = "none" /\ \E b \in DecoderInputs : Decode(b)
    \/ active = "none" /\ \E text \in TypeTexts : TypeLookup(text)
    \/ active = "none" /\ \E data \in JsonBodies, n \in DnsTypes : Extract(data, n)
    \/ active = "none" /\ \E n \in DomainNames, t \in EncoderTypes, id \in EncoderIds : Encode(n, t, id)
    \/ active = "none" /\ \E n \in DomainNames, a \in Addresses, id \in EncoderIds : RoundTrip(n, a, id)
    \/ active = "none" /\ \E c \in DoTCalls : DoTResolve(c[1][1], c[2], c[1][2], c[3])
    \/ DoTTimeout
    \/ \E id \in TransactionIds : DoTConnect(id)
    \/ \E k \in 1..Len(wire) : DoTData(k)
    \/ \E m \in SocketErrors : DoTError(m)
    \/ DoTClose
    \/ \E q \in Queries, s \in DoHServers : DoHResolve(q[1], s, q[2])
    \/ DoHAbort
    \/ \E code \in NetworkErrorCodes : DoHFetchError(code)
    \/ \E ok \in BOOLEAN, ct \in ContentTypes : DoHHeaders(ok, ct)
    \/ \E body \in DoHBodies : DoHBody(body)
    \/ \E q \in ClassicQueries, s \in ClassicServers : ClassicResolve(q[1], s, q[2])
    \/ \E r \in ClassicAnswers : ClassicAnswer(r)
    \/ \E m \in ClassicErrors : ClassicError(m)
    \/ \E q \in Queries, s \in DoQServers : DoQResolve(q[1], s, q[2])
    \/ Tick

Spec == Init /\ [][Next]_vars

(***************************************************************************)
(* The timeout setter, and calls against an upstream that never answers.   *)
(***************************************************************************)
\* setTimeout(timeout) { this.timeout = timeout }: the same method in each
\* resolver class, here called before the resolve call it is to bound
setTimeout(instance, t) ==
    /\ active = "none"
    /\ timeout' = [timeout EXCEPT ![instance] = t]
    /\ UNCHANGED << tester, run, sent, parked, active, callVars, promise, resolved, now, blocked, dotVars,
                    timerVars, asyncVars, codecVars >>

\* the instances server.js constructs that the setter is called on
Instances == { "Classic", "DoH", "DoT" }

\* the values the setter is called with
TimeoutValues == { ShortTimeout, Timeout }

\* the setter, then one resolve call whose upstream sends nothing: the
\* connection opens or not, no byte and no HTTP response arrives, and the
\* Classic client reports what it reports when it gives up
NextSilent ==
    \/ \E i \in Instances, t \in TimeoutValues : setTimeout(i, t)
    \/ \E s \in DoTServers : DoTResolve(DomainA, s, "A", << >>)
    \/ \E id \in TransactionIds : DoTConnect(id)
    \/ DoTTimeout
    \/ DoTClose
    \/ \E s \in DoHServers : DoHResolve(DomainA, s, "A")
    \/ DoHAbort
    \/ \E s \in ClassicServers : ClassicResolve(DomainA, s, "A")
    \/ \E m \in ClassicErrors : ClassicError(m)
    \/ Tick

SpecSilent == Init /\ [][NextSilent]_vars

(***************************************************************************)
(* handleTestRequest: the benchmark run a startTest message asks for.      *)
(* The function runs from one await to the next in one piece; the model    *)
(* takes the piece between two awaits in steps that nothing can come       *)
(* between: the end of one iteration, then the start of the next.          *)
(***************************************************************************)
\* the servers of a run: a DoT server, a DoT server whose port makes
\* tls.connect throw, a Classic server, a DoQ server and a server of a type
\* the switch does not know
RunDoT == [type |-> "DoT", name |-> "dot", address |-> << "1.1.1.1" >>, port |-> 853]
RunDoTBadPort == [type |-> "DoT", name |-> "dot", address |-> << "1.1.1.1" >>, port |-> 70000]
RunIPv4 ==
    [type |-> "IPv4", name |-> "google", address |-> << "8.8.8.8" >>, port |-> 53,
     ip |-> V4(<< 8, 8, 8, 8 >>)]
RunIPv6 ==
    [type |-> "IPv6", name |-> "google6full",
     address |-> << "2001:4860:4860:0:0:0:0:8888" >>, port |-> 53,
     ip |-> V6(<< 8193, 18528, 18528, 0, 0, 0, 0, 34952 >>, FALSE, << >>)]
RunDoQ ==
    [type |-> "DoQ", name |-> "doq", address |-> << "dns.adguard-dns.com" >>, port |-> 853]
RunOther == [type |-> "DoX", name |-> "other", address |-> << "x" >>, port |-> 1]
RunDoH ==
    [type |-> "DoH", name |-> "google", port |-> 443, method |-> "undefined",
     format |-> "undefined", address |-> << "https://", "dns.google", "/dns-query" >>]

\* what the DoH upstream of a run answers to every request, which it always
\* gets, though not always in time: the status is ok or not, the content
\* type, the body
Stub(ok, ct, body) == [ok |-> ok, contentType |-> ct, body |-> body]
NoStub == Stub(FALSE, "null", [bytes |-> << >>, json |-> NotJson])
DoHStubs ==
    { Stub(TRUE, "application/dns-message",
           [bytes |-> Header(1, 1) \o Question \o RecA, json |-> NotJson]),
      Stub(TRUE, "application/dns-message",
           [bytes |-> Header(1, 0) \o Question, json |-> NotJson]),
      Stub(TRUE, "application/json", [bytes |-> JsonAnswerText, json |-> JsonAnswer]),
      Stub(TRUE, "application/json", [bytes |-> HtmlText, json |-> NotJson]),
      Stub(TRUE, "application/dns-json",
           [bytes |-> JsonStatus3Text, json |-> Json(TRUE, 3, FALSE, << >>)]),
      Stub(TRUE, "text/html", [bytes |-> HtmlText, json |-> NotJson]),
      Stub(FALSE, "text/html", [bytes |-> HtmlText, json |-> NotJson]) }

\* what the DoT peer of a test sends: a response with one A record, a frame
\* that ends inside the question name, nothing
AnswerStream == << 0, 35 >> \o Header(1, 1) \o Question \o RecA
CutNameStream == << 0, 14 >> \o Header(1, 1) \o << 1, 97 >>
RunStreams == { AnswerStream, CutNameStream, << >> }

\* the sizes of the next chunk: 17 bytes of what the peer has yet to
\* deliver, or all of it
ChunkSizes == { k \in { 17, Len(wire) } : k >= 1 /\ k <= Len(wire) }

\* data.config of the startTest messages
RunConfigs ==
    { [providers |-> << [name |-> "p", servers |-> << RunDoTBadPort, RunDoT >>] >>,
       domains |-> << DomainA >>, protocols |-> { "DoT" }, testCount |-> 1,
       interval |-> 0],
      [providers |-> << [name |-> "p", servers |-> << RunDoT >>] >>,
       domains |-> << DomainA >>, protocols |-> { "DoT" }, testCount |-> MaxTestCount,
       interval |-> 1],
      [providers |-> << [name |-> "p", servers |-> << RunDoH >>] >>,
       domains |-> << DomainA >>, protocols |-> { "DoH" }, testCount |-> MaxTestCount,
       interval |-> 0],
      [providers |-> << [name |-> "p", servers |-> << RunIPv4, RunDoT >>],
                        [name |-> "q", servers |-> << RunOther, RunDoQ, RunIPv6 >>] >>,
       domains |-> << DomainA >>, protocols |-> { "IPv4", "IPv6", "DoQ", "DoX" },
       testCount |-> 1, interval |-> 0],
      [providers |-> << [name |-> "p", servers |-> << RunDoT >>] >>,
       domains |-> << >>, protocols |-> { "DoT" }, testCount |-> 1, interval |-> 0] }

RECURSIVE Sum(_)
Sum(numbers) == IF numbers = << >> THEN 0 ELSE Head(numbers) + Sum(Tail(numbers))

\* providers.forEach(provider => provider.servers.forEach(server => {
\*   if (protocols.includes(server.type)) totalTests += domains.length * testCount }))
TotalTests(config) ==
    Sum([p \in 1..Len(config.providers) |->
           Sum([n \in 1..Len(config.providers[p].servers) |->
                  IF config.providers[p].servers[n].type \in config.protocols
                  THEN Len(config.domains) * config.testCount
                  ELSE 0])])

\* the iterations of the four nested for loops, in the order they are run
LoopOrder(config) ==
    Flatten([p \in 1..Len(config.providers) |->
      Flatten([n \in 1..Len(config.providers[p].servers) |->
        IF config.providers[p].servers[n].type \in config.protocols
        THEN Flatten([m \in 1..Len(config.domains) |->
               [i \in 1..config.testCount |->
                  [provider |-> config.providers[p].name,
                   server |-> config.providers[p].servers[n],
                   domain |-> config.domains[m],
                   iteration |-> i]]])
        ELSE << >>])])

\* the iteration the loops are at, when there is one
Running == run.pc = "loop" /\ run.position <= Len(LoopOrder(run.config))
Test == LoopOrder(run.config)[run.position]

\* the DoH upstreams a run with this config may meet
StubsFor(config) == IF "DoH" \in config.protocols THEN DoHStubs ELSE { NoStub }

\* everything the peer sends in this call: the bytes consumed so far (the
\* length prefix, once read, and the buffered bytes) and those still to come
FullStream ==
    (IF expectedLength = Null THEN << >>
     ELSE << expectedLength \div 256, expectedLength % 256 >>)
    \o responseBuffer \o wire

\* what a call has seen of its upstream when it ends: the bytes of the DoT
\* peer, the HTTP methods tried and the errors they ended in
Heard ==
    [stream |-> FullStream, attempts |-> attempts, failures |-> failures]

\* handleTestRequest up to the first iteration: the count, then testStarted.
\* heard keeps, for each test that ended, what it saw of its upstream.
handleTestRequest(config) ==
    /\ run.pc = "idle" /\ active = "none"
    /\ \E stub \in StubsFor(config) :
          run' = [pc |-> "loop", config |-> config, position |-> 1,
                  completedTests |-> 0, totalTests |-> TotalTests(config),
                  upstream |-> stub, heard |-> << >>]
    /\ sent' = << [type |-> "testStarted", totalTests |-> TotalTests(config)] >>
    /\ UNCHANGED << tester, timeout, parked, active, callVars, promise, resolved, now, blocked,
                    dotVars, timerVars, asyncVars, codecVars >>

\* case 'DoT': await dotResolver.resolve(domain, server, 'A')
TestDoT(stream) ==
    /\ Running /\ Test.server.type = "DoT"
    /\ DoTResolve(Test.domain, Test.server, "A", stream)

\* case 'IPv4': await dnsResolver.resolveIPv4(domain, server)
TestIPv4 ==
    /\ Running /\ Test.server.type = "IPv4"
    /\ ClassicResolve(Test.domain, Test.server, "A")

\* a case 'IPv6' that asks for the A records, as case 'IPv4' does
TestIPv6QueryA ==
    /\ Running /\ Test.server.type = "IPv6"
    /\ ClassicResolve(Test.domain, Test.server, "A")

\* case 'IPv6': await dnsResolver.resolveIPv6(domain, server)
TestIPv6 ==
    /\ Running /\ Test.server.type = "IPv6"
    /\ ClassicResolve(Test.domain, Test.server, "AAAA")

\* case 'DoQ': await doqResolver.resolve(domain, server, 'A')
TestDoQ ==
    /\ Running /\ Test.server.type = "DoQ"
    /\ DoQResolve(Test.domain, Test.server, "A")

\* case 'DoH': await dohResolver.resolve(domain, server, 'A')
TestDoH ==
    /\ Running /\ Test.server.type = "DoH"
    /\ DoHResolve(Test.domain, Test.server, "A")

\* the run's DoH upstream answers the request in flight: status and headers
UpstreamHeaders ==
    /\ run.pc \in { "loop", "post" }
    /\ DoHHeaders(run.upstream.ok, run.upstream.contentType)

\* the run's DoH upstream answers the request in flight: the body
UpstreamBody ==
    /\ run.pc \in { "loop", "post" }
    /\ DoHBody(run.upstream.body)

\* the fresh locals of the next resolve call
ResetCall ==
    /\ active' = "none"
    /\ server' = NoServer
    /\ domain' = << >>
    /\ qtype' = "A"
    /\ promise' = "none"
    /\ resolved' = << >>
    /\ now' = 0
    /\ blocked' = FALSE
    /\ socket' = "none"
    /\ timeoutHandle' = FALSE
    /\ timerArmed' = FALSE
    /\ deadline' = 0
    /\ responseBuffer' = << >>
    /\ expectedLength' = Null
    /\ wire' = << >>
    /\ written' = << >>
    /\ pc' = "idle"
    /\ attempts' = << >>
    /\ failures' = << >>
    /\ contentType' = "none"
    /\ lookups' = << >>

\* result.provider = ...; result.iteration = ...; ws.send(testResult);
\* completedTests++; ws.send(testProgress); then the delay if interval > 0
Completed(result) ==
    /\ sent' = sent \o
          << [type |-> "testResult",
              result |-> result @@ [provider |-> Test.provider,
                                    iteration |-> Test.iteration]],
             [type |-> "testProgress", completed |-> run.completedTests + 1,
              total |-> run.totalTests,
              current |-> << Test.provider, Test.server.type >>] >>
    /\ run' = [run EXCEPT !.completedTests = @ + 1,
                          !.position = @ + 1,
                          !.heard = Append(@, Heard),
                          !.pc = IF run.config.interval > 0 THEN "delay" ELSE "loop"]

\* default: the result the loop makes up for a server type it does not know
TestUnsupported ==
    /\ Running /\ active = "none"
    /\ Test.server.type \notin { "IPv4", "IPv6", "DoH", "DoT", "DoQ" }
    /\ Completed([success |-> FALSE,
                  error |-> << "Unsupported DNS type:", Test.server.type >>,
                  server |-> Test.server, domain |-> Test.domain])
    /\ UNCHANGED << tester, timeout, parked, active, callVars, promise, resolved, now, blocked,
                    dotVars, timerVars, asyncVars, codecVars >>

\* the awaited promise is fulfilled: the rest of the try block
TestReturned ==
    /\ Running /\ active # "none" /\ ~blocked
    /\ promise = "fulfilled"
    /\ Completed(Delivered)
    /\ ResetCall
    /\ UNCHANGED << tester, timeout, parked, codecVars >>

\* the awaited promise is rejected: the catch block sends a result of its
\* own, counts nothing and waits for nothing
TestThrew ==
    /\ Running /\ active # "none" /\ ~blocked
    /\ promise = "rejected"
    /\ sent' = Append(sent,
          [type |-> "testResult",
           result |-> [success |-> FALSE, error |-> << "RangeError" >>,
                       provider |-> Test.provider, server |-> Test.server,
                       domain |-> Test.domain, iteration |-> Test.iteration]])
    /\ run' = [run EXCEPT !.position = @ + 1,
                          !.heard = Append(@, Heard)]
    /\ ResetCall
    /\ UNCHANGED << tester, timeout, parked, codecVars >>

\* setTimeout(resolve, interval * 1000) fires
DelayOver ==
    /\ run.pc = "delay"
    /\ run' = [run EXCEPT !.pc = "loop"]
    /\ UNCHANGED << tester, timeout, parked, sent, active, callVars, promise, resolved, now, blocked,
                    dotVars, timerVars, asyncVars, codecVars >>

\* the loops are over: ws.send(testComplete)
TestComplete ==
    /\ run.pc = "loop" /\ active = "none"
    /\ run.position > Len(LoopOrder(run.config))
    /\ sent' = Append(sent, [type |-> "testComplete", totalTests |-> run.totalTests,
                             completedTests |-> run.completedTests])
    /\ run' = [run EXCEPT !.pc = "complete"]
    /\ UNCHANGED << tester, timeout, parked, active, callVars, promise, resolved, now, blocked,
                    dotVars, timerVars, asyncVars, codecVars >>

NextRun ==
    \/ \E config \in RunConfigs : handleTestRequest(config)
    \/ \E stream \in RunStreams : TestDoT(stream)
    \/ TestIPv4
    \/ TestIPv6
    \/ TestDoQ
    \/ TestDoH
    \/ TestUnsupported
    \/ TestReturned
    \/ TestThrew
    \/ DelayOver
    \/ TestComplete
    \/ \E id \in TransactionIds : DoTConnect(id)
    \/ \E k \in ChunkSizes : DoTData(k)
    \/ \E m \in SocketErrors : DoTError(m)
    \/ DoTTimeout
    \/ DoTClose
    \/ \E r \in ClassicAnswers : ClassicAnswer(r)
    \/ \E m \in ClassicErrors : ClassicError(m)
    \/ UpstreamHeaders
    \/ UpstreamBody
    \/ DoHAbort
    \/ Tick

SpecRun == Init /\ [][NextRun]_vars

\* the runs whose tests are all DoT tests
DoTRunConfigs ==
    { config \in RunConfigs :
        \A p \in 1..Len(config.providers) :
            \A n \in 1..Len(config.providers[p].servers) :
                config.providers[p].servers[n].type = "DoT" }

NextDoTRun ==
    \/ \E config \in DoTRunConfigs : handleTestRequest(config)
    \/ \E stream \in RunStreams : TestDoT(stream)
    \/ TestReturned
    \/ TestThrew
    \/ DelayOver
    \/ TestComplete
    \/ \E id \in TransactionIds : DoTConnect(id)
    \/ \E k \in ChunkSizes : DoTData(k)
    \/ \E m \in SocketErrors : DoTError(m)
    \/ DoTTimeout
    \/ DoTClose
    \/ Tick

\* The event loop runs every callback that is ready, the clock advances
\* until the pending timer expires, and every timer fires.
SpecDoTRun == Init /\ [][NextDoTRun]_vars /\ WF_vars(NextDoTRun)

(***************************************************************************)
(* POST /api/test (src/server.js), beside the WebSocket run.               *)
(***************************************************************************)
\* a request body with no server member
NoServerMember == [type |-> "undefined"]

\* the server and domain members of the request bodies: domain '' is << >>
PostServers ==
    { NoServerMember, RunIPv4, RunIPv6, RunDoH, RunDoT, RunDoTBadPort, RunDoQ, RunOther }
PostDomains == { << >>, DomainA }

\* res.status(status).json(body)
Response(status, body) == [type |-> "response", status |-> status, body |-> body]

\* the request handler up to its switch: the 400 for a missing member, and
\* the switch's default case
PostTest(s, d) ==
    /\ run.pc = "idle" /\ active = "none"
    /\ IF s = NoServerMember \/ d = << >>
       THEN /\ run' = [pc |-> "responded", server |-> s, domain |-> d]
            /\ sent' = << Response(400,
                   [success |-> FALSE, error |-> << "Server and domain are required" >>]) >>
       ELSE IF s.type \notin { "IPv4", "IPv6", "DoH", "DoT", "DoQ" }
       THEN /\ run' = [pc |-> "responded", server |-> s, domain |-> d]
            /\ sent' = << Response(400,
                   [success |-> FALSE, error |-> << "Unsupported DNS type:", s.type >>]) >>
       ELSE /\ \E stub \in (IF s.type = "DoH" THEN DoHStubs ELSE { NoStub }) :
                  run' = [pc |-> "post", server |-> s, domain |-> d, upstream |-> stub]
            /\ UNCHANGED sent
    /\ UNCHANGED << tester, timeout, parked, active, callVars, promise, resolved, now, blocked,
                    dotVars, timerVars, asyncVars, codecVars >>

\* the switch's five cases: the resolver call the handler awaits
PostCall(stream) ==
    /\ run.pc = "post" /\ active = "none"
    /\ \/ run.server.type = "IPv4" /\ ClassicResolve(run.domain, run.server, "A")
       \/ run.server.type = "IPv6" /\ ClassicResolve(run.domain, run.server, "AAAA")
       \/ run.server.type = "DoH" /\ DoHResolve(run.domain, run.server, "A")
       \/ run.server.type = "DoT" /\ DoTResolve(run.domain, run.server, "A", stream)
       \/ run.server.type = "DoQ" /\ DoQResolve(run.domain, run.server, "A")

\* the awaited promise is fulfilled: res.json(result)
PostReturned ==
    /\ run.pc = "post" /\ active # "none" /\ ~blocked
    /\ promise = "fulfilled"
    /\ sent' = << Response(200, Delivered) >>
    /\ run' = [pc |-> "responded", server |-> run.server, domain |-> run.domain]
    /\ ResetCall
    /\ UNCHANGED << tester, timeout, parked, codecVars >>

\* the awaited promise is rejected: the catch block's 500
PostThrew ==
    /\ run.pc = "post" /\ active # "none" /\ ~blocked
    /\ promise = "rejected"
    /\ sent' = << Response(500, [success |-> FALSE, error |-> << "RangeError" >>]) >>
    /\ run' = [pc |-> "responded", server |-> run.server, domain |-> run.domain]
    /\ ResetCall
    /\ UNCHANGED << tester, timeout, parked, codecVars >>

\* One request to either entry point of the server.
NextEntry ==
    \/ NextRun
    \/ \E s \in PostServers, d \in PostDomains : PostTest(s, d)
    \/ \E stream \in RunStreams : PostCall(stream)
    \/ PostReturned
    \/ PostThrew

SpecEntry == Init /\ [][NextEntry]_vars

(***************************************************************************)
(* Two DoT calls in flight on the one DoTResolver instance.  The handlers  *)
(* of a call work on the variables of that call's promise executor; the    *)
(* event loop runs one handler at a time and may turn from the handlers of *)
(* one call to those of the other between any two of them.                 *)
(***************************************************************************)
\* the variables of the promise executor of the call whose handlers run
Locals ==
    [active |-> active, server |-> server, domain |-> domain, qtype |-> qtype,
     promise |-> promise, resolved |-> resolved, socket |-> socket,
     timeoutHandle |-> timeoutHandle, timerArmed |-> timerArmed,
     deadline |-> deadline, responseBuffer |-> responseBuffer,
     expectedLength |-> expectedLength, wire |-> wire, written |-> written]

\* a turn to the other call when the receive buffer and the expected length
\* are fields of the resolver instance, which both calls use
SwitchSharingBuffer ==
    /\ ~blocked
    /\ active # "none" \/ parked.active # "none"
    /\ parked' = Locals
    /\ active' = parked.active
    /\ server' = parked.server
    /\ domain' = parked.domain
    /\ qtype' = parked.qtype
    /\ promise' = parked.promise
    /\ resolved' = parked.resolved
    /\ socket' = parked.socket
    /\ timeoutHandle' = parked.timeoutHandle
    /\ timerArmed' = parked.timerArmed
    /\ deadline' = parked.deadline
    /\ wire' = parked.wire
    /\ written' = parked.written
    /\ UNCHANGED << tester, responseBuffer, expectedLength, timeout, run, sent, now, blocked,
                    asyncVars, codecVars >>

\* the event loop turns to the other call, everything of which is in variables
\* that belong to its own resolve invocation
Switch ==
    /\ ~blocked
    /\ active # "none" \/ parked.active # "none"
    /\ parked' = Locals
    /\ active' = parked.active
    /\ server' = parked.server
    /\ domain' = parked.domain
    /\ qtype' = parked.qtype
    /\ promise' = parked.promise
    /\ resolved' = parked.resolved
    /\ socket' = parked.socket
    /\ timeoutHandle' = parked.timeoutHandle
    /\ timerArmed' = parked.timerArmed
    /\ deadline' = parked.deadline
    /\ responseBuffer' = parked.responseBuffer
    /\ expectedLength' = parked.expectedLength
    /\ wire' = parked.wire
    /\ written' = parked.written
    /\ UNCHANGED << tester, timeout, run, sent, now, blocked, asyncVars, codecVars >>

\* the clock, which passes the expiry of neither call's pending timer
PairTick ==
    /\ (parked.timerArmed /\ ~blocked) => now < parked.deadline
    /\ Tick

\* a second answer, with another address
OtherAnswerStream == << 0, 36 >> \o Header(1, 1) \o Question \o RecALabel

\* what the peer of a call sends, by the call's arguments
StreamOf(d, t) ==
    IF d = DomainA /\ t = "A" THEN AnswerStream
    ELSE IF d = DomainABB THEN OtherAnswerStream
    ELSE CutNameStream

\* the calls made while another may be in flight
PairQueries == { << DomainA, "A" >>, << DomainABB, "A" >>, << DomainA, "aaaa" >> }

NextPair ==
    \/ \E q \in PairQueries : DoTResolve(q[1], RunDoT, q[2], StreamOf(q[1], q[2]))
    \/ Switch
    \/ \E id \in TransactionIds : DoTConnect(id)
    \/ \E k \in ChunkSizes : DoTData(k)
    \/ \E m \in SocketErrors : DoTError(m)
    \/ DoTTimeout
    \/ DoTClose
    \/ PairTick

SpecPair == Init /\ [][NextPair]_vars

(***************************************************************************)
(* DNSTester, the browser's test runner (src/config/logging.js).  It calls *)
(* POST /api/test once per test; handleWebSocketMessage is not modelled:   *)
(* the tester sends nothing on its socket and the server sends only in     *)
(* answer to a message.                                                    *)
(***************************************************************************)
\* the variables of the server
serverVars ==
    << active, server, domain, qtype, promise, resolved, now, blocked, socket,
       timeoutHandle, timerArmed, deadline, responseBuffer, expectedLength, wire,
       written, pc, attempts, failures, contentType, lookups, decoded, encoded,
       timeout, parked, run, sent >>

\* the configurations of the model: the number of queue entries the
\* providers, protocols, domains and testCount make, and testInterval
TesterConfigs ==
    { [entries |-> 2, testInterval |-> 0], [entries |-> 1, testInterval |-> 1],
      [entries |-> 0, testInterval |-> 0] }

\* shuffleArray: any order of the entries
Shuffles(n) ==
    { q \in [1..n -> 1..n] : \A i, j \in 1..n : q[i] = q[j] => i = j }

\* disconnectWebSocket
disconnectWebSocket(t) ==
    IF t.websocket = 0 THEN t
    ELSE [t EXCEPT !.calls[t.websocket].ws = "closed", !.websocket = 0]

\* startTest's finally block, which ends the call
Finally(t, c) ==
    disconnectWebSocket([t EXCEPT !.isRunning = FALSE, !.calls[c].pc = "done"])

\* executeTests after its loop: 'Test completed' with percentage 100 and
\* completed: true, and the return into startTest's finally
AfterLoop(t, c) ==
    Finally([t EXCEPT !.status = "Test completed",
                      !.completions = Append(@, [call |-> c,
                                                 stopped |-> t.calls[c].stopped])],
            c)

\* executeTests from the loop's condition with index i (counted from 1):
\* run the body up to `await this.performSingleTest(test)`, or leave the loop
LoopFrom(t, c, i) ==
    IF i <= Len(t.testQueue) /\ t.isRunning
    THEN [t EXCEPT !.status = "Testing",
                   !.calls[c].pc = "fetch",
                   !.calls[c].i = i,
                   !.calls[c].test = << t.queues, t.testQueue[i] >>,
                   !.performed = Append(@, [call |-> c, queue |-> t.queues,
                                            test |-> t.testQueue[i],
                                            stopped |-> t.calls[c].stopped])]
    ELSE AfterLoop(t, c)

\* a startTest with no test of isRunning
startTestAnyway(config) ==
    /\ Len(tester.calls) < MaxStarts
    /\ \E q \in Shuffles(config.entries) :
          tester' = [tester EXCEPT
              !.isRunning = TRUE,
              !.results = << >>,
              !.testQueue = q,
              !.totalTests = Len(q),
              !.completedTests = 0,
              !.status = "Starting DNS benchmark...",
              !.queues = @ + 1,
              !.websocket = Len(tester.calls) + 1,
              !.calls = Append(@, [pc |-> "connecting", ws |-> "connecting", i |-> 0,
                                   queue |-> tester.queues + 1,
                                   test |-> << >>, stopped |-> FALSE,
                                   testInterval |-> config.testInterval])]
    /\ UNCHANGED serverVars

\* startTest up to `await this.connectWebSocket()`, or its early return
startTest(config) ==
    /\ Len(tester.calls) < MaxStarts
    /\ IF tester.isRunning
       THEN tester' = [tester EXCEPT
              !.calls = Append(@, [pc |-> "returned", ws |-> "none", i |-> 0, queue |-> 0,
                                   test |-> << >>, stopped |-> FALSE,
                                   testInterval |-> config.testInterval])]
       ELSE \E q \in Shuffles(config.entries) :
              tester' = [tester EXCEPT
                  !.isRunning = TRUE,
                  !.results = << >>,
                  !.testQueue = q,
                  !.totalTests = Len(q),
                  !.completedTests = 0,
                  !.status = "Starting DNS benchmark...",
                  !.queues = @ + 1,
                  !.websocket = Len(tester.calls) + 1,
                  !.calls = Append(@, [pc |-> "connecting", ws |-> "connecting", i |-> 0,
                                   queue |-> tester.queues + 1,
                                       test |-> << >>, stopped |-> FALSE,
                                       testInterval |-> config.testInterval])]
    /\ UNCHANGED serverVars

\* websocket.onopen resolves connectWebSocket: executeTests starts
WebSocketOpen(c) ==
    /\ c \in 1..Len(tester.calls)
    /\ tester.calls[c].pc = "connecting" /\ tester.calls[c].ws = "connecting"
    /\ tester' = LoopFrom([tester EXCEPT !.calls[c].ws = "open"], c, 1)
    /\ UNCHANGED serverVars

\* websocket.onerror rejects connectWebSocket (the connection failed, or
\* the socket was closed before it opened): catch, handleTestError, finally
WebSocketError(c) ==
    /\ c \in 1..Len(tester.calls)
    /\ tester.calls[c].pc = "connecting" /\ tester.calls[c].ws # "open"
    /\ tester' = Finally([tester EXCEPT !.calls[c].ws = "closed",
                                        !.status = "Error"], c)
    /\ UNCHANGED serverVars

\* performSingleTest returns (it catches whatever fetch throws): the rest of
\* the loop body, then the sleep or the next iteration
TestDone(c) ==
    /\ c \in 1..Len(tester.calls)
    /\ tester.calls[c].pc = "fetch"
    /\ LET t == [tester EXCEPT !.results = Append(@, tester.calls[c].test),
                               !.completedTests = @ + 1]
       IN  tester' = IF tester.calls[c].testInterval > 0
                     THEN [t EXCEPT !.calls[c].pc = "sleep"]
                     ELSE LoopFrom(t, c, tester.calls[c].i + 1)
    /\ UNCHANGED serverVars

\* the sleep's timer fires: the next iteration
SleepOver(c) ==
    /\ c \in 1..Len(tester.calls)
    /\ tester.calls[c].pc = "sleep"
    /\ tester' = LoopFrom(tester, c, tester.calls[c].i + 1)
    /\ UNCHANGED serverVars

\* stopTest.  stopped marks the calls that were in progress when it ran.
stopTest ==
    /\ tester.stops < MaxStops
    /\ tester' = disconnectWebSocket(
          [tester EXCEPT
             !.isRunning = FALSE,
             !.status = "Test stopped by user",
             !.stops = @ + 1,
             !.calls = [c \in 1..Len(tester.calls) |->
                          IF tester.calls[c].pc \in { "connecting", "fetch", "sleep" }
                          THEN [tester.calls[c] EXCEPT !.stopped = TRUE]
                          ELSE tester.calls[c]]])
    /\ UNCHANGED serverVars

NextTester ==
    \/ \E config \in TesterConfigs : startTest(config)
    \/ stopTest
    \/ \E c \in 1..MaxStarts : WebSocketOpen(c)
    \/ \E c \in 1..MaxStarts : WebSocketError(c)
    \/ \E c \in 1..MaxStarts : TestDone(c)
    \/ \E c \in 1..MaxStarts : SleepOver(c)

SpecTester == Init /\ [][NextTester]_vars

(***************************************************************************)
(* Properties.                                                             *)
(***************************************************************************)
HasField(r, f) == f \in DOMAIN r

TimeoutError == << "Connection timeout" >>

\* C1: every result a transport hands to its caller has a result and no
\* error when success is true, and an error and no result when it is false.
C1_ResultShape ==
    \A i \in 1..Len(resolved) :
        /\ resolved[i].success =>
              HasField(resolved[i], "result") /\ ~HasField(resolved[i], "error")
        /\ ~resolved[i].success =>
              HasField(resolved[i], "error") /\ ~HasField(resolved[i], "result")

\* a DoT call that built a success result and then an error result
C1_Witness ==
    /\ active = "DoT"
    /\ Len(resolved) = 2
    /\ resolved[1].success
    /\ ~resolved[2].success

\* C2: in one DoT resolve call the promise's resolve is invoked at most once.
C2_ResolvedAtMostOnce == active = "DoT" => Len(resolved) <= 1

\* C3: the promise resolve returns is never rejected, whatever fails.
C3_NeverRejected == promise # "rejected"

\* every request of the call ended by its abort timer (an attempt that threw
\* before its request was sent made no request)
NeverResponded ==
    /\ \E i \in 1..Len(failures) : failures[i] = AbortError
    /\ \A i \in 1..Len(failures) : failures[i] \in { AbortError, RangeError, InvalidURL }

\* C4: a DoH resolve whose upstream never responds completes within one
\* timeout period of its start, with the timeout error.
C4_OneTimeoutPeriod ==
    (active = "DoH" /\ pc = "done" /\ NeverResponded) =>
        /\ now <= Timeout
        /\ ~Delivered.success
        /\ Delivered.error = << "Request timeout after", Timeout, "ms" >>

\* C5: when the DoT timer expires on an unresolved call the caller receives
\* success = false with 'Connection timeout', and once it has received that
\* nothing delivered later replaces it.
C5_TimeoutIsFinal ==
    [][ /\ (DoTTimeout /\ resolved = << >>) =>
              (resolved' # << >> /\ ~Head(resolved').success
               /\ Head(resolved').error = TimeoutError)
        /\ (resolved # << >> /\ ~Delivered.success /\ Delivered.error = TimeoutError) =>
              (resolved' # << >> /\ Head(resolved') = Delivered) ]_vars

\* the timer expired in AwaitingBody with part of the frame received
C5_Witness ==
    /\ active = "DoT"
    /\ resolved # << >>
    /\ ~Delivered.success /\ Delivered.error = TimeoutError
    /\ expectedLength # Null
    /\ responseBuffer # << >>
    /\ Len(responseBuffer) < expectedLength

\* C6: whenever the DoT call has been resolved, its socket has been destroyed.
C6_SocketDestroyed ==
    (active = "DoT" /\ resolved # << >>) => socket \in { "destroyed", "closed" }

\* a DoT call resolved with success, its socket destroyed and not yet closed
C6_Witness ==
    /\ active = "DoT"
    /\ resolved # << >>
    /\ Delivered.success
    /\ socket = "destroyed"

\* C7: a DoH resolve makes at most two attempts, at most one per HTTP method;
\* there is a second attempt exactly when the first has failed, and it uses
\* the other method.
C7_OneFallback ==
    active = "DoH" =>
        /\ Len(attempts) <= 2
        /\ Cardinality({ i \in 1..Len(attempts) : attempts[i] = "POST" }) <= 1
        /\ Cardinality({ i \in 1..Len(attempts) : attempts[i] = "GET" }) <= 1
        /\ (Len(attempts) = 2) <=> (failures # << >>)
        /\ Len(attempts) = 2 => attempts[2] # attempts[1]

\* the fallback request is in flight after the primary failed
C7_Witness ==
    /\ active = "DoH"
    /\ pc = "fetch"
    /\ Len(attempts) = 2
    /\ Len(failures) = 1

\* the answers the code's decoders give for body under content type ct
BodyAnswers(body, ct, dnsType) ==
    IF IsDnsMessage(ct) THEN parseDNSMessage(body.bytes).answers
    ELSE extractAnswersFromJSON(body.json, dnsType)

\* C8: when the primary attempt failed and the fallback succeeds, the result
\* is a success with the fallback's answers and the fallback's method name.
C8_FallbackResult ==
    [][ \A body \in DoHBodies :
          (DoHBody(body) /\ Len(attempts) = 2 /\ Len(resolved') = 1
           /\ Len(failures') = 1) =>
              /\ Head(resolved').success
              /\ Head(resolved').result = BodyAnswers(body, contentType, getDNSType(qtype))
              /\ attempts[1] = "GET" => Head(resolved').method = "POST"
              /\ attempts[1] = "POST" =>
                    Head(resolved').method \in { "GET-binary", "GET-json" } ]_vars

\* a call whose primary POST failed and whose fallback GET succeeded
C8_Witness ==
    /\ active = "DoH"
    /\ pc = "done"
    /\ attempts = << "POST", "GET" >>
    /\ Len(failures) = 1
    /\ Delivered.success
    /\ Delivered.result # << >>

\* the pair the claim gives: server.method and server.format when both are
\* set, else the table entry, else GET + json
ClaimedConfig(s) ==
    IF s.method # "undefined" /\ s.format # "undefined"
    THEN [method |-> s.method, format |-> s.format]
    ELSE getProviderConfig(s.address)

\* C9: the primary attempt uses server.method and server.format when the
\* descriptor carries both, else the built-in table's pair, else GET + json.
C9_ProviderConfig ==
    active = "DoH" =>
        /\ getProviderConfig(server.address) = ClaimedConfig(server)
        /\ attempts[1] = PrimaryMethod(ClaimedConfig(server))

\* the decoder read or moved past the end of its input
Overrun(outcome, input) == outcome.reach > Len(input)

\* C10: on every input where the offset runs past the end of the buffer, both
\* decoders terminate by raising a parse error.
C10_OverrunRaises ==
    active = "Codec" =>
        /\ Overrun(decoded.doh, decoded.input) => decoded.doh.kind = "error"
        /\ Overrun(decoded.dot, decoded.input) => decoded.dot.kind = "error"

\* the frame of a stream: the L bytes after its 2-byte length L
FrameOf(stream) == SubSeq(stream, 3, 2 + readUInt16BE(stream, 0))

\* the completion the data handler owes for a stream, whatever the chunks
CompletionOf(stream) ==
    LET outcome == parseDNSResponse(FrameOf(stream))
    IN  IF outcome.kind = "ok"
        THEN SuccessResult(outcome.answers, server, domain, qtype)
             @@ [rawResponse |-> FrameOf(stream)]
        ELSE ErrorResult(<< "Failed to parse DoT response" >>, server, domain, qtype)

\* a result built by the data handler
FromDataHandler(r) ==
    r.success \/ r.error = << "Failed to parse DoT response" >>

\* C11: for a stream of a 2-byte length L and at least L bytes, the DoT data
\* handler's completion depends on the stream only, not on how it is split
\* into chunks: every result it builds is the one the stream's frame decodes
\* to, it never ends inside the decoder unless that frame makes the decoder
\* loop, and once the whole stream has arrived it has completed.
C11_ChunkingInvariant ==
    (active = "DoT" /\ socket # "none") =>
        /\ \A i \in 1..Len(resolved) :
              FromDataHandler(resolved[i]) => resolved[i] = CompletionOf(FullStream)
        /\ blocked => parseDNSResponse(FrameOf(FullStream)).kind = "hang"
        /\ wire = << >> =>
              (blocked \/ \E i \in 1..Len(resolved) : FromDataHandler(resolved[i]))

\* the handler completed with answers on a chunk that ended exactly at the
\* end of the frame, with a byte of the stream still to come
C11_Witness ==
    /\ active = "DoT"
    /\ resolved # << >>
    /\ Delivered.success
    /\ Delivered.result # << >>
    /\ wire # << >>

NotImplemented ==
    << "DNS over QUIC (DoQ) is not yet implemented in this version. QUIC protocol support requires additional dependencies." >>

\* C12: a DoQ resolve returns at once, for every domain, server and type,
\* success = false with the fixed not-implemented error, and has opened no
\* socket, written no bytes, made no HTTP attempt and issued no lookup.
C12_DoQNotImplemented ==
    active = "DoQ" =>
        /\ promise = "fulfilled"
        /\ Len(resolved) = 1
        /\ ~Delivered.success
        /\ Delivered.error = NotImplemented
        /\ Delivered.server = server /\ Delivered.domain = domain
        /\ Delivered.type = qtype
        /\ socket = "none" /\ written = << >> /\ wire = << >>
        /\ attempts = << >> /\ lookups = << >>
        /\ ~timerArmed

\* a DoQ resolve of "a.bb" with type aaaa has returned
C12_Witness ==
    /\ active = "DoQ"
    /\ domain = DomainABB
    /\ qtype = "aaaa"
    /\ resolved # << >>

\* C13: a DoH attempt, from its request to the end of its response body,
\* never outlives the timeout that was started with it.
C13_BodyBounded ==
    (active = "DoH" /\ pc \in { "fetch", "body" }) => now <= deadline

\* what the claim has an answer record contribute to the list: the address
\* of an A record of 4 bytes or of an AAAA record of 16 bytes, else nothing
ClaimedAnswer(record) ==
    CASE record = RecA      -> << << "A", 10, 0, 0, 1 >> >>
      [] record = RecALabel -> << << "A", 10, 0, 0, 2 >> >>
      [] record = RecAAAA   -> << << "AAAA", 8193, 3512, 0, 0, 0, 0, 0, 1 >> >>
      [] record = RecCNAME  -> << >>

ClaimedAnswers(records) ==
    Flatten([i \in 1..Len(records) |-> ClaimedAnswer(records[i])])

\* C14: on a well-formed response both decoders return, in record order, the
\* address of every A record (RDLENGTH 4) and of every AAAA record
\* (RDLENGTH 16) and nothing for the other records.
C14_DecodeAnswers ==
    active = "Codec" =>
        \A qd \in {0, 1}, rs \in RecordLists(MaxAnswers) :
            decoded.input = Header(qd, Len(rs)) \o (IF qd = 1 THEN Question ELSE << >>)
                            \o Flatten(rs)
            => /\ decoded.doh.kind = "ok"
               /\ decoded.doh.answers = ClaimedAnswers(rs)
               /\ decoded.dot.kind = "ok"
               /\ decoded.dot.answers = ClaimedAnswers(rs)

\* the name's dot-separated labels are non-empty and at most 63 characters
LabelsWellFormed(name) ==
    /\ Len(name) > 0
    /\ name[1] # 46 /\ name[Len(name)] # 46
    /\ \A i \in 1..(Len(name) - 1) : ~(name[i] = 46 /\ name[i + 1] = 46)
    /\ \A i \in 1..(Len(name) - 63) : \E j \in i..(i + 63) : name[j] = 46

\* the number of characters after position i up to the next dot or the end
RunAfter(name, i) ==
    LET dots == { j \in (i + 1)..Len(name) : name[j] = 46 }
    IN  IF dots = { } THEN Len(name) - i
        ELSE (CHOOSE j \in dots : \A k \in dots : j <= k) - 1 - i

\* the record-type codes of the specification; unknown types are A
ClaimedCode(type) ==
    CASE type \in { "A", "a" }         -> 1
      [] type \in { "NS", "ns" }       -> 2
      [] type \in { "CNAME", "cname" } -> 5
      [] type \in { "SOA", "soa" }     -> 6
      [] type \in { "PTR", "ptr" }     -> 12
      [] type \in { "MX", "mx" }       -> 15
      [] type \in { "TXT", "txt" }     -> 16
      [] type \in { "AAAA", "aaaa" }   -> 28
      [] OTHER                         -> 1

\* bytes is the query the claim describes for name, type and id: the header,
\* then the name with a length byte in front of it and in place of each dot,
\* a zero byte, QTYPE and QCLASS
IsClaimedQuery(bytes, name, type, id) ==
    /\ Len(bytes) = 12 + (Len(name) + 2) + 4
    /\ SubSeq(bytes, 1, 12) = << id \div 256, id % 256, 1, 0, 0, 1, 0, 0, 0, 0, 0, 0 >>
    /\ bytes[13] = RunAfter(name, 0)
    /\ \A i \in 1..Len(name) :
          bytes[13 + i] = IF name[i] = 46 THEN RunAfter(name, i) ELSE name[i]
    /\ bytes[14 + Len(name)] = 0
    /\ SubSeq(bytes, 15 + Len(name), 18 + Len(name)) = << 0, ClaimedCode(type), 0, 1 >>

\* C16 as stated: for every name whose labels are non-empty and at most 63
\* characters and every type, the encoder returns the header (id, flags
\* 0x0100, QDCOUNT 1, other counts 0), each label after its length byte, a
\* zero byte, QTYPE and QCLASS 1, in 12 + (length of name + 2) + 4 bytes.
C16_EncodedQueryAnyLength ==
    (active = "Encoder" /\ LabelsWellFormed(encoded.name)) =>
        /\ encoded.kind = "ok"
        /\ IsClaimedQuery(encoded.bytes, encoded.name, encoded.type, encoded.id)

\* C16 amended: the same for every such name of at most 494 characters, the
\* longest whose query fits the encoder's 512-byte buffer; for a longer name
\* the encoder throws.
C16_EncodedQuery ==
    (active = "Encoder" /\ LabelsWellFormed(encoded.name)) =>
        IF Len(encoded.name) <= 494
        THEN /\ encoded.kind = "ok"
             /\ IsClaimedQuery(encoded.bytes, encoded.name, encoded.type, encoded.id)
        ELSE encoded.kind = "throw"

\* "a.bb.ccc" encoded with type mx
C16_Witness ==
    /\ active = "Encoder"
    /\ encoded.kind = "ok"
    /\ encoded.name = NameABBCCC
    /\ encoded.type = "mx"
    /\ SubSeq(encoded.bytes, 13, 22) = << 1, 97, 2, 98, 98, 3, 99, 99, 99, 0 >>

\* the address in the A record that ResponseTo appended, as the decoders
\* print it
AppendedAddress(response) ==
    << "A", response[Len(response) - 3], response[Len(response) - 2],
            response[Len(response) - 1], response[Len(response)] >>

\* both decoders return exactly the appended address, and their question
\* skip ends at the first byte after the query's question section
RoundTripExact ==
    /\ decoded.input = ResponseTo(encoded.bytes, SubSeq(decoded.input,
                                   Len(decoded.input) - 3, Len(decoded.input)))
    /\ SkipQuestions(decoded.input, 12, 1) = Len(encoded.bytes)
    /\ decoded.doh.kind = "ok"
    /\ decoded.doh.answers = << AppendedAddress(decoded.input) >>
    /\ decoded.dot.kind = "ok"
    /\ decoded.dot.answers = << AppendedAddress(decoded.input) >>

\* C15: for every name whose labels are non-empty and at most 63 characters
\* and every IPv4 address, the response made from the encoded A query
\* (ANCOUNT 1, one A record with a compression-pointer name) decodes to
\* exactly that address, and the decoders' question skip ends at the first
\* byte after the encoder's question section.
C15_RoundTrip ==
    (active = "RoundTrip" /\ LabelsWellFormed(encoded.name) /\ encoded.kind = "ok")
        => RoundTripExact

\* "a.bb.ccc" answered with 192.12.0.1, whose first byte looks like a
\* compression pointer
C15_Witness ==
    /\ active = "RoundTrip"
    /\ encoded.name = NameABBCCC
    /\ decoded.doh.kind = "ok"
    /\ decoded.doh.answers = << << "A", 192, 12, 0, 1 >> >>
    /\ decoded.dot.answers = << << "A", 192, 12, 0, 1 >> >>

\* the attempts that have been started and have neither thrown nor returned
InFlight ==
    Len(attempts) - Len(failures) - (IF pc = "done" /\ promise = "fulfilled"
                                        /\ Delivered.success THEN 1 ELSE 0)

\* C17: a DoH resolve never has two attempts in flight; while a request is
\* outstanding every earlier attempt has failed and resolve has caught its
\* error, and when resolve has returned nothing is in flight.
C17_Sequential ==
    active = "DoH" =>
        /\ InFlight <= 1
        /\ pc \in { "fetch", "body" } =>
              (InFlight = 1 /\ Len(failures) = Len(attempts) - 1)
        /\ pc = "done" => InFlight = 0

\* the fallback is reading its response body after the primary was aborted
\* by its timer
C17_Witness ==
    /\ active = "DoH"
    /\ pc = "body"
    /\ Len(attempts) = 2
    /\ failures = << AbortError >>

\* C18: once a DoT call has been resolved, by whatever path, its timer is no
\* longer pending, so the timer's callback runs only on an unresolved call
\* and 'Connection timeout' is never a second or later result.
C18_TimerCancelled ==
    (active = "DoT" /\ resolved # << >>) =>
        /\ ~timerArmed
        /\ \A i \in 2..Len(resolved) : resolved[i].error # TimeoutError

\* a socket error resolved the call before the timer was due
C18_Witness ==
    /\ active = "DoT"
    /\ resolved # << >>
    /\ ~Delivered.success
    /\ Delivered.error = << "ECONNRESET" >>
    /\ now < deadline
    /\ ~timerArmed

ClosedError == << "Connection closed unexpectedly" >>

\* no complete length-prefixed frame has been received
FrameIncomplete == expectedLength = Null \/ Len(responseBuffer) < expectedLength

\* C19: when the connection closes on a DoT call that nothing has resolved
\* yet and that has not received a complete frame, the call is resolved with
\* success = false and 'Connection closed unexpectedly'.
C19_PrematureClose ==
    [][ (DoTClose /\ resolved = << >> /\ FrameIncomplete) =>
            /\ Len(resolved') = 1
            /\ ~Head(resolved').success
            /\ Head(resolved').error = ClosedError
            /\ promise' = "fulfilled" ]_vars

\* the peer closed the connection in AwaitingBody, the length read and part
\* of the frame received
C19_Witness ==
    /\ active = "DoT"
    /\ resolved # << >>
    /\ ~Delivered.success /\ Delivered.error = ClosedError
    /\ expectedLength # Null
    /\ responseBuffer # << >>
    /\ Len(responseBuffer) < expectedLength

\* the content types the claim lets an attempt succeed with
Recognized(ct) ==
    ct \in { "application/dns-message", "application/json", "application/dns-json" }

\* this step made the attempt in flight fail: its error was thrown to
\* resolve, which started the fallback if the attempt was the primary and
\* returned a success = false result if it was the fallback
AttemptFailed ==
    /\ Len(failures') > Len(failures)
    /\ SubSeq(failures', 1, Len(failures)) = failures
    /\ IF Len(attempts) = 1 THEN Len(attempts') = 2
       ELSE pc' = "done" /\ resolved' # << >> /\ ~Head(resolved').success
    /\ \A i \in 1..Len(resolved') : ~resolved'[i].success

\* C20: a DoH attempt fails when the status is not 2xx and when the content
\* type is missing or is none of application/dns-message, application/json
\* and application/dns-json (a POST reads the body before it looks at the
\* content type); an attempt returns a success only with one of these types;
\* a failure starts the fallback or ends the call with success = false.
C20_StatusAndContentType ==
    [][ /\ \A ok \in BOOLEAN, ct \in ContentTypes :
              (DoHHeaders(ok, ct) /\ (~ok \/ ~Recognized(ct))) =>
                  \/ AttemptFailed
                  \/ ok /\ CurrentMethod = "POST" /\ pc' = "body" /\ contentType' = ct
        /\ \A body \in DoHBodies :
              (DoHBody(body) /\ ~Recognized(contentType)) => AttemptFailed
        /\ \A body \in DoHBodies :
              (DoHBody(body) /\ resolved' # << >> /\ Head(resolved').success) =>
                  Recognized(contentType) ]_vars

\* a call whose POST got a text/html response and whose fallback GET got a
\* response without a content type
C20_Witness ==
    /\ active = "DoH"
    /\ pc = "done"
    /\ attempts = << "POST", "GET" >>
    /\ failures = << UnexpectedContentType("text/html"), InvalidContentType("null") >>
    /\ ~Delivered.success

\* the responses with ANCOUNT = 0: a header alone, and a header and a question
EmptyResponses == { Header(0, 0), Header(1, 0) \o Question }

Last(seq) == seq[Len(seq)]

\* C23: a response with ANCOUNT = 0 and a well-formed question section
\* decodes to the empty list in both decoders, and the DoT data handler or a
\* DoH attempt reading an application/dns-message body that receives it
\* returns success = true with result = [].
C23_EmptyAnswerIsSuccess ==
    [][ /\ \A b \in EmptyResponses :
              Decode(b) =>
                  /\ decoded'.doh.kind = "ok" /\ decoded'.doh.answers = << >>
                  /\ decoded'.dot.kind = "ok" /\ decoded'.dot.answers = << >>
        /\ \A k \in 1..Len(wire) :
              (DoTData(k) /\ expectedLength' # Null
               /\ Len(responseBuffer') >= expectedLength'
               /\ SubSeq(responseBuffer', 1, expectedLength') \in EmptyResponses) =>
                  /\ Len(resolved') = Len(resolved) + 1
                  /\ Last(resolved').success
                  /\ Last(resolved').result = << >>
        /\ \A body \in DoHBodies :
              (DoHBody(body) /\ IsDnsMessage(contentType)
               /\ body.bytes \in EmptyResponses) =>
                  /\ Len(resolved') = Len(resolved) + 1
                  /\ Last(resolved').success
                  /\ Last(resolved').result = << >>
                  /\ pc' = "done" ]_vars

\* a DoT call that received a frame with no answers and returned success
\* with an empty list
C23_Witness ==
    /\ active = "DoT"
    /\ resolved # << >>
    /\ Delivered.success
    /\ Delivered.result = << >>
    /\ Delivered.rawResponse = Header(1, 0) \o Question

\* the list the claim describes, built entry by entry from the front
RECURSIVE ClaimedExtract(_, _)
ClaimedExtract(answers, dnsType) ==
    IF answers = << >> THEN << >>
    ELSE (IF Head(answers).hasType /\ Head(answers).hasData
             /\ Head(answers).type = dnsType
          THEN << Head(answers).data >> ELSE << >>)
         \o ClaimedExtract(Tail(answers), dnsType)

\* C24: JSON answer extraction returns, in order, the data of exactly the
\* entries of Answer that have a type and a data field and whose type is the
\* queried code, and the empty list for a body with no Answer key.
C24_JsonExtraction ==
    active = "Extract" =>
        IF decoded.input.hasAnswer
        THEN decoded.answers = ClaimedExtract(decoded.input.Answer, decoded.dnsType)
        ELSE decoded.answers = << >>

\* two A entries extracted in order from an array that also holds an entry
\* of another type
C24_Witness ==
    /\ active = "Extract"
    /\ decoded.dnsType = 1
    /\ Len(decoded.input.Answer) = 3
    /\ decoded.answers = << << "A", 10, 0, 0, 2 >>, << "A", 10, 0, 0, 1 >> >>

\* text spells name (given in upper case) in some mix of letter cases
Spells(text, name) ==
    /\ Len(text) = Len(name)
    /\ \A i \in 1..Len(name) : text[i] \in { name[i], name[i] + 32 }

\* the code the claim gives a type string
ClaimedTypeCode(text) ==
    CASE Spells(text, << 65 >>)                 -> 1
      [] Spells(text, << 78, 83 >>)             -> 2
      [] Spells(text, << 67, 78, 65, 77, 69 >>) -> 5
      [] Spells(text, << 83, 79, 65 >>)         -> 6
      [] Spells(text, << 80, 84, 82 >>)         -> 12
      [] Spells(text, << 77, 88 >>)             -> 15
      [] Spells(text, << 84, 88, 84 >>)         -> 16
      [] Spells(text, << 65, 65, 65, 65 >>)     -> 28
      [] OTHER                                  -> 1

\* C25: the record-type lookup gives A 1, NS 2, CNAME 5, SOA 6, PTR 12,
\* MX 15, TXT 16 and AAAA 28 in any letter case and 1 for every other type
\* string, and gives the same code in the DoH, DoT and DoQ classes.
C25_TypeCodes ==
    active = "TypeLookup" =>
        /\ decoded.doh = ClaimedTypeCode(decoded.input)
        /\ decoded.dot = decoded.doh
        /\ decoded.doq = decoded.doh

\* "Cname" looked up
C25_Witness ==
    /\ active = "TypeLookup"
    /\ decoded.input = << 67, 110, 97, 109, 101 >>
    /\ decoded.doh = 5 /\ decoded.dot = 5 /\ decoded.doq = 5

\* C29: a DoT resolve call whose promise is still pending has not outlived
\* its timer: whatever the peer sends, the call is resolved by the time the
\* timer is due.
C29_ResolvedByDeadline ==
    (active = "DoT" /\ promise = "pending") => now <= deadline

\* the length the stream's first two bytes announce
AnnouncedLength == readUInt16BE(FullStream, 0)

ClaimedKind(type) ==
    CASE type \in { "AAAA", "aaaa" }           -> "resolve6"
      [] type \in { "MX", "Mx", "mx" }         -> "resolveMx"
      [] type \in { "TXT", "txt" }             -> "resolveTxt"
      [] type \in { "NS", "ns" }               -> "resolveNs"
      [] type \in { "CNAME", "Cname", "cname" } -> "resolveCname"
      [] OTHER                                 -> "resolve4"

\* the upstream the call was configured with
Configured(s) == [ip |-> s.ip, port |-> ClassicPort(s)]

\* C22: a Classic call issues at most one query, exactly one while it waits
\* for the client, of the kind its type names whatever the case (A for any
\* other type), to the address and port of the server it was given; a
\* failed query ends the call with success = false and the client's message.
C22_OneQueryToConfigured ==
    active = "Classic" =>
        /\ Len(lookups) <= 1
        /\ pc = "query" => Len(lookups) = 1
        /\ \A i \in 1..Len(lookups) :
              /\ lookups[i].kind = ClaimedKind(qtype)
              /\ [ip |-> lookups[i].ip, port |-> lookups[i].port] = Configured(server)
        /\ \A i \in 1..Len(resolved) :
              ~resolved[i].success =>
                  resolved[i].error \in
                      { << m >> : m \in ClassicErrors \cup { "Invalid IP address" } }

\* C22, the part of it that holds: the number and the kind of the queries
C22_OneQueryOfKind ==
    active = "Classic" =>
        /\ Len(lookups) <= 1
        /\ pc = "query" => Len(lookups) = 1
        /\ \A i \in 1..Len(lookups) : lookups[i].kind = ClaimedKind(qtype)

(***************************************************************************)
(* The timeout and its setter.                                             *)
(***************************************************************************)
\* C28: a resolve call started after the setter calls, against an upstream
\* that never answers, is over by the time the timeout of its transport has
\* passed since its start (the clock reads 0 when a call starts): the
\* default while the setter was not called, the value set otherwise.
C28_BoundedByTimeout ==
    (active \in Instances /\ promise = "pending") => now <= timeout[active]

\* C28, the DoT part, which holds
C28_DoTBoundedByTimeout ==
    (active = "DoT" /\ promise = "pending") => now <= timeout.DoT

\* C28: the setter assigns the timeout of one instance and nothing else
C28_SetterChangesTimeoutOnly ==
    [][ timeout' # timeout =>
            /\ \E i \in Instances, t \in TimeoutValues :
                  timeout' = [timeout EXCEPT ![i] = t]
            /\ UNCHANGED << tester, run, sent, parked, active, callVars, promise, resolved, now,
                            blocked, dotVars, timerVars, asyncVars, codecVars >> ]_vars

(***************************************************************************)
(* The benchmark run.                                                      *)
(***************************************************************************)
IsTestResult(message) == message.type = "testResult"

\* the testResult messages sent so far
TestResults == SelectSeq(sent, IsTestResult)

\* C26, order and isolation: the results sent so far are those of the first
\* iterations of the loops, one each and in loop order, whether the test
\* succeeded, failed or threw; the call in flight is that of the next
\* iteration; and testComplete is sent last, after a result for every test.
C26_OneAtATimeInLoopOrder ==
    run.pc # "idle" =>
        /\ Len(TestResults) = run.position - 1
        /\ Len(TestResults) <= Len(LoopOrder(run.config))
        /\ \A i \in 1..Len(TestResults) :
              /\ TestResults[i].result.provider = LoopOrder(run.config)[i].provider
              /\ TestResults[i].result.server = LoopOrder(run.config)[i].server
              /\ TestResults[i].result.domain = LoopOrder(run.config)[i].domain
              /\ TestResults[i].result.iteration = LoopOrder(run.config)[i].iteration
        /\ active # "none" =>
              /\ Running
              /\ server = Test.server /\ domain = Test.domain
        /\ run.pc = "complete" =>
              /\ Len(TestResults) = Len(LoopOrder(run.config))
              /\ run.totalTests = Len(LoopOrder(run.config))
              /\ Last(sent).type = "testComplete"

\* C26: a run that has started sends testComplete in the end.
C26_RunCompletes == (run.pc = "loop") ~> (run.pc = "complete")

\* C26, what holds of the end of a run: it sends testComplete unless a
\* decoder loop has stopped the event loop.
C26_RunCompletesUnlessBlocked == (run.pc = "loop") ~> (run.pc = "complete" \/ blocked)

(***************************************************************************)
(* Two calls with the same arguments.                                      *)
(***************************************************************************)
\* the fields of a result that the claim compares
ComparedFields == { "success", "result", "error", "method", "server", "domain", "type" }
Compared(result) == [f \in DOMAIN result \cap ComparedFields |-> result[f]]

\* the call was ended by its timer or by the loss of its connection, not by
\* what its upstream sent
Interrupted(result) ==
    /\ ~result.success
    /\ result.error \in { << "Connection timeout" >>,
                          << "Connection closed unexpectedly" >>,
                          << "ECONNRESET" >> }

\* tests i and j of the run called resolve with the same arguments and met
\* the same upstream behaviour
SameCall(i, j) ==
    /\ LoopOrder(run.config)[i].server = LoopOrder(run.config)[j].server
    /\ LoopOrder(run.config)[i].domain = LoopOrder(run.config)[j].domain
    /\ run.heard[i] = run.heard[j]
    /\ ~Interrupted(TestResults[i].result)
    /\ ~Interrupted(TestResults[j].result)

C21_WitnessDoH ==
    /\ run.pc # "idle"
    /\ Len(TestResults) = 2
    /\ SameCall(1, 2)
    /\ TestResults[1].result.server.type = "DoH"
    /\ TestResults[1].result.success /\ TestResults[2].result.success

(***************************************************************************)
(* Two DoT calls at the same time.                                         *)
(***************************************************************************)
\* the completion the data handler owes a call for the stream of its peer
OwnCompletion(call) ==
    LET frame   == FrameOf(StreamOf(call.domain, call.qtype))
        outcome == parseDNSResponse(frame)
    IN  IF outcome.kind = "ok"
        THEN SuccessResult(outcome.answers, call.server, call.domain, call.qtype)
             @@ [rawResponse |-> frame]
        ELSE ErrorResult(<< "Failed to parse DoT response" >>, call.server,
                         call.domain, call.qtype)

\* the results a call can have on its own when its peer's answer is not what
\* ends it
OwnFailures(call) ==
    { ErrorResult(<< m >>, call.server, call.domain, call.qtype) :
        m \in { "Connection timeout", "Connection closed unexpectedly", "RangeError" }
              \cup SocketErrors }

\* every result the call has built is one it could have built alone
OwnResults(call) ==
    call.active = "DoT" =>
        \A i \in 1..Len(call.resolved) :
            IF FromDataHandler(call.resolved[i])
            THEN call.resolved[i] = OwnCompletion(call)
            ELSE call.resolved[i] \in OwnFailures(call)

\* no byte of a call's buffer or of its pending input is a byte of the other
\* call's stream: what it holds is a piece of its own peer's stream
OwnBytes(call) ==
    call.active = "DoT" /\ call.socket # "none" =>
        LET stream == StreamOf(call.domain, call.qtype)
            held   == call.responseBuffer \o call.wire
        IN  /\ Len(held) <= Len(stream)
            /\ held = SubSeq(stream, Len(stream) - Len(held) + 1, Len(stream))

Logged == IF active = "DoT" THEN resolved ELSE << >>

\* C32: for a DoT call at most one response is logged and it is the result
\* delivered to the caller; a call completed with success, timeout or a
\* socket error is not also logged as 'Connection closed unexpectedly'.
C32_LoggedOnceAsDelivered ==
    active = "DoT" =>
        /\ Len(Logged) <= 1
        /\ \A i \in 1..Len(Logged) : Logged[i] = Delivered
        /\ \A i \in 2..Len(Logged) :
               ~(~Logged[i].success /\ Logged[i].error = ClosedError)

\* both attempts of the DoH call have failed and resolve has returned
BothFailed == active = "DoH" /\ pc = "done" /\ Len(failures) = 2 /\ resolved # << >>

\* the timeout, not-found and refused messages of a failed call
FixedMessage(error) ==
    IF error.name = "AbortError" THEN << "Request timeout after", timeout.DoH, "ms" >>
    ELSE IF error.code = "ENOTFOUND" THEN << "DNS server not found:", server.address >>
    ELSE << "Connection refused to", server.address >>

HasFixedMessage(error) ==
    error.name = "AbortError" \/ error.code \in { "ENOTFOUND", "ECONNREFUSED" }

\* C33 as stated: when both DoH attempts fail the result is success = false
\* and its error is the fallback's: the timeout, not-found or refused
\* message, otherwise the fallback error's own message.
C33_FallbackErrorOwnMessage ==
    BothFailed =>
        /\ Len(resolved) = 1
        /\ ~Delivered.success
        /\ Delivered.error = IF HasFixedMessage(failures[2]) THEN FixedMessage(failures[2])
                              ELSE failures[2].message

\* C33 amended: the same, except that a fallback error whose message
\* contains 'Unexpected token' is reported as 'Invalid JSON response from DoH
\* server'; the primary attempt's error is not in the result.
C33_FallbackErrorOnly ==
    BothFailed =>
        /\ Len(resolved) = 1
        /\ ~Delivered.success
        /\ Delivered.error =
              IF HasFixedMessage(failures[2]) THEN FixedMessage(failures[2])
              ELSE IF \E i \in 1..Len(failures[2].message) :
                         failures[2].message[i] = "Unexpected token"
              THEN << "Invalid JSON response from DoH server" >>
              ELSE failures[2].message
        /\ (failures[1] # failures[2] /\ HasFixedMessage(failures[1])
              /\ ~HasFixedMessage(failures[2])) =>
                 Delivered.error # FixedMessage(failures[1])

\* C33 witness: the primary attempt timed out, the fallback then failed on
\* its HTTP status, and the result carries the status error.
C33_Witness ==
    /\ BothFailed
    /\ failures[1] = AbortError
    /\ failures[2] = HTTPError
    /\ Delivered.error = HTTPError.message

\* C33 witness of the amended case: the fallback's JSON body did not parse
C33_WitnessInvalidJson ==
    /\ BothFailed
    /\ failures[2] \in { JSONSyntaxError, JSONParseFailed }
    /\ Delivered.error = << "Invalid JSON response from DoH server" >>

\* the testProgress messages sent so far, in order
Progress == SelectSeq(sent, LAMBDA m : m.type = "testProgress")

\* the messages between testStarted and testComplete (or the end, while the
\* run has not completed)
Body ==
    SubSeq(sent, 2, IF run.pc = "complete" THEN Len(sent) - 1 ELSE Len(sent))

\* C34: the messages of a run are one testStarted carrying totalTests, then
\* for each test one testResult followed by one testProgress whose completed
\* count is one more than the last and at most totalTests, then one
\* testComplete whose completedTests equals totalTests.
C34_MessageSequence ==
    run.pc # "idle" =>
        /\ sent # << >>
        /\ sent[1] = [type |-> "testStarted", totalTests |-> TotalTests(run.config)]
        /\ \A k \in 1..Len(Body) :
              IF k % 2 = 1
              THEN /\ Body[k].type = "testResult"
                   /\ run.pc = "complete" => k < Len(Body)
              ELSE /\ Body[k].type = "testProgress"
                   /\ Body[k].completed = k \div 2
                   /\ Body[k].completed <= TotalTests(run.config)
        /\ run.pc = "complete" =>
              /\ sent[Len(sent)].type = "testComplete"
              /\ sent[Len(sent)].totalTests = TotalTests(run.config)
              /\ sent[Len(sent)].completedTests = TotalTests(run.config)
              /\ Len(Body) = 2 * TotalTests(run.config)

\* C34, the part of it that holds: the counts of the progress messages are
\* 1, 2, ... and never exceed totalTests, nothing follows testComplete, and
\* testComplete reports the number of progress messages sent.
C34_ProgressCounts ==
    run.pc # "idle" =>
        /\ \A k \in 1..Len(Progress) :
              Progress[k].completed = k /\ k <= TotalTests(run.config)
        /\ \A k \in 1..Len(sent) :
              sent[k].type = "testComplete" =>
                 k = Len(sent) /\ sent[k].completedTests = Len(Progress)

(***************************************************************************)
(* The choice of the transport.                                            *)
(***************************************************************************)
\* the transport and the record type the claim gives a server type
TransportOf(type) ==
    CASE type \in { "IPv4", "IPv6" } -> "Classic"
      [] type \in { "DoH", "DoT", "DoQ" } -> type
      [] OTHER -> "none"
RecordTypeOf(type) == IF type = "IPv6" THEN "AAAA" ELSE "A"

\* the server and domain of the request being served
Requested ==
    IF run.pc = "loop" THEN [server |-> Test.server, domain |-> Test.domain]
    ELSE [server |-> run.server, domain |-> run.domain]

\* the testResult messages of tests on a server of the given types
ResultsOn(types) ==
    SelectSeq(sent, LAMBDA m : m.type = "testResult" /\ m.result.server.type \in types)

UnsupportedResult(m, type) ==
    /\ ~m.success
    /\ m.error = << "Unsupported DNS type:", type >>

\* C35: at both entry points the resolver called is the one of server.type,
\* with A (AAAA for IPv6) as the record type, and a server of any other type
\* gets a success = false 'Unsupported DNS type' outcome with no resolver
\* called.
C35_TransportByType ==
    /\ active # "none" =>
          /\ run.pc \in { "loop", "post" }
          /\ run.pc = "loop" => Running
          /\ server = Requested.server /\ domain = Requested.domain
          /\ active = TransportOf(Requested.server.type)
          /\ qtype = RecordTypeOf(Requested.server.type)
          /\ \A i \in 1..Len(lookups) :
                lookups[i].kind = IF server.type = "IPv6" THEN "resolve6" ELSE "resolve4"
    /\ LET known == { "IPv4", "IPv6", "DoH", "DoT", "DoQ" }
           other == ResultsOn({ "DoX" })
           own   == ResultsOn(known)
       IN  /\ \A i \in 1..Len(other) : UnsupportedResult(other[i].result, "DoX")
           /\ \A i \in 1..Len(own) :
                 own[i].result.success \/ own[i].result.error[1] # "Unsupported DNS type:"
           /\ (run.pc = "responded" /\ run.server # NoServerMember /\ run.domain # << >>) =>
                 IF run.server.type \in known
                 THEN /\ sent[1].status \in { 200, 500 }
                      /\ sent[1].status = 200 =>
                            /\ sent[1].body.server = run.server
                            /\ sent[1].body.type = RecordTypeOf(run.server.type)
                            /\ sent[1].body.success \/
                                  sent[1].body.error[1] # "Unsupported DNS type:"
                 ELSE /\ sent[1].status = 400
                      /\ UnsupportedResult(sent[1].body, run.server.type)

\* C35 witness: POST /api/test with an IPv6 server has answered with the
\* result of a Classic AAAA query.
C35_Witness ==
    /\ run.pc = "responded"
    /\ run.server.type = "IPv6"
    /\ sent[1].status = 200
    /\ sent[1].body.type = "AAAA"
    /\ sent[1].body.success

\* C35 witness of the WebSocket run: a test on a server of another type has
\* been answered with 'Unsupported DNS type' and an IPv6 test is in flight.
C35_WitnessRun ==
    /\ run.pc = "loop"
    /\ Len(ResultsOn({ "DoX" })) = 1
    /\ active = "Classic" /\ qtype = "AAAA"
    /\ Len(lookups) = 1

\* C35 witness: POST /api/test with a server of another type
C35_WitnessUnsupported ==
    /\ run.pc = "responded"
    /\ run.server = RunOther /\ run.domain = DomainA
    /\ sent[1].status = 400

(***************************************************************************)
(* The browser's DNSTester.                                                *)
(***************************************************************************)
\* C36: over every sequence of startTest and stopTest calls, a loop issues
\* tests of the queue its own startTest built only (so one loop at most is
\* issuing the tests of a run), no entry of a queue is performed twice, and
\* completedTests never exceeds totalTests.
C36_OneLoopPerRun ==
    /\ \A k \in 1..Len(tester.performed) :
          tester.performed[k].queue = tester.calls[tester.performed[k].call].queue
    /\ \A k, m \in 1..Len(tester.performed) :
          (tester.performed[k].queue = tester.performed[m].queue
             /\ tester.performed[k].test = tester.performed[m].test) => k = m
    /\ tester.completedTests <= tester.totalTests

\* C37: a run that stopTest was called on starts no further test and does
\* not dispatch 'Test completed'.
C37_StoppedRunIsSilent ==
    /\ \A k \in 1..Len(tester.performed) : ~tester.performed[k].stopped
    /\ \A k \in 1..Len(tester.completions) : ~tester.completions[k].stopped

\* C38: a startTest call made while isRunning is true changes none of
\* results, testQueue, totalTests and completedTests, builds no queue,
\* opens no socket, starts no loop and returns at once.
C38_StartWhileRunning ==
    [][ (tester.isRunning /\ Len(tester'.calls) > Len(tester.calls)) =>
            /\ tester'.results = tester.results
            /\ tester'.testQueue = tester.testQueue
            /\ tester'.totalTests = tester.totalTests
            /\ tester'.completedTests = tester.completedTests
            /\ tester'.isRunning
            /\ tester'.queues = tester.queues
            /\ tester'.websocket = tester.websocket
            /\ tester'.performed = tester.performed
            /\ tester'.completions = tester.completions
            /\ SubSeq(tester'.calls, 1, Len(tester.calls)) = tester.calls
            /\ Len(tester'.calls) = Len(tester.calls) + 1
            /\ tester'.calls[Len(tester'.calls)].pc = "returned" ]_vars

\* C38 witness: startTest was called and returned while the first call's
\* loop had a test in flight and one result in.
C38_Witness ==
    /\ Len(tester.calls) = 2
    /\ tester.calls[1].pc = "fetch"
    /\ tester.calls[2].pc = "returned"
    /\ tester.isRunning
    /\ Len(tester.results) = 1
    /\ tester.completedTests = 1 /\ tester.totalTests = 2

(***************************************************************************)
(* The bytes a DoT call writes.                                            *)
(***************************************************************************)
\* a buffer that is a 2-byte big-endian length followed by the encoded query
\* of the call's domain and type
FramedQuery(buffer) ==
    /\ Len(buffer) >= 2
    /\ buffer[1] * 256 + buffer[2] = Len(buffer) - 2
    /\ \E id \in TransactionIds :
          SubSeq(buffer, 3, Len(buffer)) = createDNSQuery(domain, qtype, id)

\* C39: a DoT call writes to its socket in the connect handler only, once,
\* and what it writes is the 2-byte big-endian length of the encoded query
\* followed by the encoded query; no other handler writes.
C39_WrittenOnceOnConnect ==
    [][ (active = "DoT" /\ active' = "DoT") =>
            /\ written' # written =>
                  /\ socket = "connecting" /\ socket' = "open"
                  /\ written = << >>
                  /\ Len(written') = 1
                  /\ FramedQuery(written'[1])
            /\ (socket = "connecting" /\ socket' = "open") => Len(written') = 1
            /\ socket' \in { "none", "connecting" } => written' = << >> ]_vars

\* C39 witness: the query was written on connect, and the data handler and
\* the close handler have run since without another write.
C39_Witness ==
    /\ active = "DoT"
    /\ Len(written) = 1
    /\ Len(written[1]) = 2 + 12 + 3 + 4
    /\ socket = "closed"
    /\ Len(resolved) = 2
    /\ Delivered.success

====
